---- MODULE Spec2Model ----
(***************************************************************************)
(* fastapi-aws: vendor-extension metadata for OpenAPI documents.           *)
(*                                                                         *)
(* The model covers the schema post-processor and the export step of       *)
(* fastapi_aws/__main__.py, the route constructor of fastapi_aws/route.py, *)
(* the authorizers of fastapi_aws/authorizers.py and the integration       *)
(* builders of fastapi_aws/integrations.py.                                *)
(*                                                                         *)
(* JSON values.  A Python value of a document is a record with the same    *)
(* four fields whatever its type, so that any two values can be compared:  *)
(*   t  the type: "str", "dict" or "list"                                  *)
(*   d  the items of a dict (a function from keys to values)               *)
(*   l  the items of a list (a sequence of values)                         *)
(*   s  the text of a string                                               *)
(***************************************************************************)
EXTENDS Integers, Sequences, FiniteSets, TLC

Str(s) == [t |-> "str", d |-> <<>>, l |-> <<>>, s |-> s]

Dict(f) == [t |-> "dict", d |-> f, l |-> <<>>, s |-> ""]

List(q) == [t |-> "list", d |-> <<>>, l |-> q, s |-> ""]

\* a tuple: its items are in l, as for a list
Tuple(q) == [t |-> "tuple", d |-> <<>>, l |-> q, s |-> ""]

EmptyDict == Dict(<<>>)

\* Python's None and the value of a variable that is not bound yet.
None == "<None>"

Unbound == "<unbound>"

\* obj[key] = value on a dict value
SetItem(obj, key, value) == Dict((key :> value) @@ obj.d)

HasKey(obj, key) == obj.t = "dict" /\ key \in DOMAIN obj.d

(***************************************************************************)
(* fnmatch.fnmatch(key, pattern) for a pattern that is a literal followed  *)
(* by one trailing '*': the key starts with the literal.                   *)
(***************************************************************************)
fnmatch(key, pattern) ==
    LET lit == SubSeq(pattern, 1, Len(pattern) - 1)
    IN  /\ Len(key) >= Len(lit)
        /\ SubSeq(key, 1, Len(lit)) = lit

VENDOR_PATTERN == "x-amazon-apigateway-*"

(***************************************************************************)
(* remove_keys_by_pattern works in place and returns nothing; the operator *)
(* gives the value the object holds after the call.                        *)
(***************************************************************************)
RECURSIVE remove_keys_by_pattern_shallow(_, _)
remove_keys_by_pattern_shallow(obj, pattern) ==
    IF obj.t = "dict"
    THEN LET keys_to_delete == {key \in DOMAIN obj.d : fnmatch(key, pattern)}
             kept == (DOMAIN obj.d) \ keys_to_delete
         IN  Dict([key \in kept |->
                      remove_keys_by_pattern_shallow(obj.d[key], pattern)])
    ELSE obj

RECURSIVE remove_keys_by_pattern_first(_, _)
remove_keys_by_pattern_first(obj, pattern) ==
    IF obj.t = "dict"
    THEN LET matching == {key \in DOMAIN obj.d : fnmatch(key, pattern)}
             keys_to_delete ==
                 IF matching = {} THEN {}
                 ELSE {CHOOSE key \in matching :
                          \A other \in matching : Len(key) <= Len(other)}
             kept == (DOMAIN obj.d) \ keys_to_delete
         IN  Dict([key \in kept |->
                      remove_keys_by_pattern_first(obj.d[key], pattern)])
    ELSE IF obj.t = "list"
    THEN List([i \in 1..Len(obj.l) |->
                  remove_keys_by_pattern_first(obj.l[i], pattern)])
    ELSE obj

RECURSIVE remove_keys_by_pattern(_, _)
remove_keys_by_pattern(obj, pattern) ==
    IF obj.t = "dict"
    THEN LET keys_to_delete == {key \in DOMAIN obj.d : fnmatch(key, pattern)}
             kept == (DOMAIN obj.d) \ keys_to_delete
         IN  Dict([key \in kept |->
                      remove_keys_by_pattern(obj.d[key], pattern)])
    ELSE IF obj.t = "list"
    THEN List([i \in 1..Len(obj.l) |->
                  remove_keys_by_pattern(obj.l[i], pattern)])
    ELSE obj

make_public_api_schema(openapi_schema) ==
    remove_keys_by_pattern(openapi_schema, VENDOR_PATTERN)

(***************************************************************************)
(* add_cors_to_openapi.  The result is [err, doc]: err is "none" and doc   *)
(* the value of the document after the call, or err names the exception    *)
(* the call raised and doc is the document as the call left it.            *)
(***************************************************************************)
cors_header(example) ==
    Dict([schema |-> Dict([type |-> Str("string")]), example |-> Str(example)])

CORS_HEADERS ==
    ("Access-Control-Allow-Origin" :> cors_header("*"))
    @@ ("Access-Control-Allow-Headers" :>
            cors_header("Content-Type, Authorization, X-Api-Key"))
    @@ ("Access-Control-Allow-Methods" :>
            cors_header("OPTIONS, GET, POST, PUT, DELETE, PATCH"))

add_cors_to_response_reset(response) ==
    SetItem(response, "headers", Dict(CORS_HEADERS))

\* the body of the loop over details["responses"].items()
add_cors_to_response(response) ==
    LET with_headers ==
            IF "headers" \notin DOMAIN response.d
            THEN SetItem(response, "headers", EmptyDict)
            ELSE response
        headers == with_headers.d["headers"]
    IN  SetItem(with_headers, "headers", Dict(CORS_HEADERS @@ headers.d))

\* the body of the loop over methods.items()
add_cors_to_details(details) ==
    IF "responses" \in DOMAIN details.d
    THEN LET responses == details.d["responses"]
         IN  SetItem(details, "responses",
                     Dict([status \in DOMAIN responses.d |->
                              add_cors_to_response(responses.d[status])]))
    ELSE details

add_cors_to_openapi(openapi_schema) ==
    IF "paths" \notin DOMAIN openapi_schema.d
    THEN [err |-> "KeyError", doc |-> openapi_schema]
    ELSE LET paths == openapi_schema.d["paths"]
             new_paths ==
                 Dict([path \in DOMAIN paths.d |->
                         Dict([method \in DOMAIN paths.d[path].d |->
                                 add_cors_to_details(paths.d[path].d[method])])])
         IN  [err |-> "none", doc |-> SetItem(openapi_schema, "paths", new_paths)]

(***************************************************************************)
(* json.dump(obj, f): the text written is fixed at the time of the call,   *)
(* whatever happens to obj afterwards.  The text is kept as the value it   *)
(* decodes to.                                                             *)
(***************************************************************************)
json_dump(obj) == [json |-> obj]

Unwritten == [json |-> Str("<no file>")]

(***************************************************************************)
(* Documents built from nested dicts and lists, by number of nodes.        *)
(***************************************************************************)
MaxNodes == 4

KeySeq ==
    << "tags", "x-amazon-apigateway-authtype", "x-amazon-apigateway-integration" >>

\* the strictly increasing sequences of m indices of KeySeq
IncSeqs(m) ==
    {ks \in [1..m -> 1..Len(KeySeq)] :
        \A i \in 1..m : \A j \in 1..m : i < j => ks[i] < ks[j]}

DictOf(ks, q) ==
    Dict([key \in {KeySeq[ks[i]] : i \in 1..Len(q)} |->
             q[CHOOSE i \in 1..Len(q) : KeySeq[ks[i]] = key]])

\* Trees[n].tr: the values of n nodes; Trees[n].sq: the sequences of values of
\* n nodes in all
Trees[n \in 0..MaxNodes] ==
    IF n = 0 THEN [tr |-> {}, sq |-> {<<>>}]
    ELSE LET below == Trees[n - 1].sq
             tr == (IF n = 1 THEN {Str("text")} ELSE {})
                   \cup {List(q) : q \in below}
                   \cup UNION {{DictOf(ks, q) : ks \in IncSeqs(Len(q))} :
                                 q \in {r \in below : Len(r) <= Len(KeySeq)}}
             sq == UNION {{<<v>> \o q :
                              v \in (IF k = n THEN tr ELSE Trees[k].tr),
                              q \in Trees[n - k].sq} : k \in 1..n}
         IN  [tr |-> tr, sq |-> sq]

NestedDocs == UNION {Trees[n].tr : n \in 1..MaxNodes}

(***************************************************************************)
(* OpenAPI documents: 'paths' (optional) maps path to method to operation; *)
(* an operation may lack 'responses'; a response may lack 'headers'.       *)
(***************************************************************************)
Opt(cond, key, value) == IF cond THEN key :> value ELSE <<>>

PlainHeader == Dict([schema |-> Dict([type |-> Str("string")])])

SampleIntegration ==
    Dict([uri |-> Str("${lambda_uri}"), type |-> Str("aws_proxy")])

ResponseChoices ==
    { EmptyDict,
      Dict([description |-> Str("ok")]),
      Dict([description |-> Str("ok"), headers |-> EmptyDict]),
      Dict([description |-> Str("ok"),
            headers |-> Dict("X-Request-Id" :> PlainHeader)]),
      Dict([description |-> Str("ok"),
            headers |-> Dict("Access-Control-Allow-Origin" :> PlainHeader)]) }

NotFoundResponse == Dict([description |-> Str("not found")])

ResponsesChoices ==
    {EmptyDict}
    \cup {Dict("200" :> r) : r \in ResponseChoices}
    \cup {Dict(("200" :> r) @@ ("404" :> NotFoundResponse)) : r \in ResponseChoices}

OperationChoices ==
    {Dict(("summary" :> Str("op"))
          @@ Opt(vendor, "x-amazon-apigateway-integration", SampleIntegration))
        : vendor \in BOOLEAN}
    \cup {Dict(("summary" :> Str("op")) @@ ("responses" :> rs)
               @@ Opt(vendor, "x-amazon-apigateway-integration", SampleIntegration))
            : rs \in ResponsesChoices, vendor \in BOOLEAN}

OtherOperation ==
    Dict([responses |-> Dict("201" :> Dict([description |-> Str("created")]))])

PathItemChoices ==
    {EmptyDict}
    \cup {Dict("get" :> op) : op \in OperationChoices}
    \cup {Dict(("get" :> op) @@ ("post" :> OtherOperation)) : op \in OperationChoices}

SampleComponents ==
    Dict([securitySchemes |->
            Dict([auth |->
                    Dict(("type" :> Str("apiKey"))
                         @@ ("x-amazon-apigateway-authtype" :> Str("custom")))])])

OpenAPIDocs ==
    {Dict(("info" :> Str("untitled")) @@ Opt(comp, "components", SampleComponents))
        : comp \in BOOLEAN}
    \cup {Dict(("info" :> Str("untitled")) @@ ("paths" :> EmptyDict))}
    \cup {Dict(("info" :> Str("untitled")) @@ ("paths" :> Dict("/x" :> item))
               @@ Opt(comp, "components", SampleComponents))
            : item \in PathItemChoices, comp \in BOOLEAN}

\* the documents add_cors_to_openapi is written for: every level it walks
\* through with .items() is a dict
AllDicts(d) == \A key \in DOMAIN d.d : d.d[key].t = "dict"

IsOpenAPIDocument(doc) ==
    /\ doc.t = "dict"
    /\ "paths" \in DOMAIN doc.d =>
        LET paths == doc.d["paths"]
        IN  /\ paths.t = "dict"
            /\ AllDicts(paths)
            /\ \A path \in DOMAIN paths.d :
                /\ AllDicts(paths.d[path])
                /\ \A method \in DOMAIN paths.d[path].d :
                    LET details == paths.d[path].d[method]
                    IN  "responses" \in DOMAIN details.d =>
                          /\ details.d["responses"].t = "dict"
                          /\ AllDicts(details.d["responses"])
                          /\ \A status \in DOMAIN details.d["responses"].d :
                                LET response == details.d["responses"].d[status]
                                IN  "headers" \in DOMAIN response.d =>
                                        response.d["headers"].t = "dict"

(***************************************************************************)
(* The state.                                                              *)
(*   pc        what the program is doing and how far it got               *)
(*   args      the command line of the export step                         *)
(*   routes    app.routes                                                  *)
(*   obj       the one document object (changed in place by the            *)
(*             post-processor)                                             *)
(*   generated the value get_openapi returned                              *)
(*   refs      which names of the export step are bound to obj             *)
(*   files     what was written to --out-private and --out-public          *)
(*   calls     the post-processor calls made so far, oldest first:         *)
(*             [fn, arg (obj before the call), err]                        *)
(*   route     the AWSAPIRoute under construction                          *)
(*   auth      the authorizer under construction                           *)
(*   integ     the call of an integration builder and what it returned     *)
(***************************************************************************)
VARIABLES pc, args, routes, obj, generated, refs, files, calls, route, auth, integ

\* the variables of the document programs, and those of the other programs
docVars == <<args, routes, obj, generated, refs, files, calls>>

objVars == <<route, auth, integ>>

Idle == [state |-> "idle"]

NoArgs == [cors_flag |-> FALSE, cors |-> FALSE, out_private |-> None, out_public |-> None]

NoRefs == [openapi_schema |-> Unbound, private |-> Unbound, public |-> Unbound]

NoFiles == [out_private |-> Unwritten, out_public |-> Unwritten]

NoDoc == Str("<no document>")

(***************************************************************************)
(* The post-processor called by a caller that holds one document.          *)
(***************************************************************************)
MaxCalls == 2

InitPostproc ==
    /\ pc = "postproc"
    /\ obj \in NestedDocs \cup OpenAPIDocs
    /\ args = NoArgs
    /\ routes = <<>>
    /\ generated = NoDoc
    /\ refs = NoRefs
    /\ files = NoFiles
    /\ calls = <<>>
    /\ route = Idle
    /\ auth = Idle
    /\ integ = Idle

\* a call that raised ends the caller
Running ==
    /\ pc = "postproc"
    /\ Len(calls) < MaxCalls
    /\ \A i \in 1..Len(calls) : calls[i].err = "none"

CallMakePublic ==
    /\ Running
    /\ obj' = make_public_api_schema(obj)
    /\ calls' = Append(calls, [fn |-> "make_public_api_schema", arg |-> obj,
                               err |-> "none"])
    /\ UNCHANGED <<pc, args, routes, generated, refs, files, objVars>>

CallAddCors ==
    /\ Running
    /\ IsOpenAPIDocument(obj)
    /\ LET r == add_cors_to_openapi(obj)
       IN  /\ obj' = r.doc
           /\ calls' = Append(calls, [fn |-> "add_cors_to_openapi", arg |-> obj,
                                      err |-> r.err])
    /\ UNCHANGED <<pc, args, routes, generated, refs, files, objVars>>

(***************************************************************************)
(* The export step (python -m fastapi_aws).                                *)
(*                                                                         *)
(* A route of app.routes, as far as the generated document shows it:       *)
(* [path, method, tags, responses, openapi_extra].                         *)
(***************************************************************************)
MaxRoutes == 2

Num(n) == [t |-> "num", d |-> <<>>, l |-> <<>>, s |-> ToString(n)]

INTEGRATION_KEY == "x-amazon-apigateway-integration"

RouteChoices ==
    {[path |-> path, method |-> method, tags |-> <<>>, responses |-> EmptyDict,
      openapi_extra |-> extra]
        : path \in {"/x", "/y"}, method \in {"GET", "POST"},
          extra \in {EmptyDict, Dict(INTEGRATION_KEY :> SampleIntegration)}}

RouteSeqs == UNION {[1..n -> RouteChoices] : n \in 0..MaxRoutes}

\* --cors is declared with default=True and action="store_true"
CORS_DEFAULT == TRUE

parse_args(cors_flag, out_private, out_public) ==
    [cors_flag |-> cors_flag,
     cors |-> (IF cors_flag THEN TRUE ELSE CORS_DEFAULT),
     out_private |-> out_private,
     out_public |-> out_public]

InitExport ==
    /\ pc = "export_start"
    /\ \E cors_flag \in BOOLEAN, out_private \in {None, "private.json"},
          out_public \in {"-"} :
            args = parse_args(cors_flag, out_private, out_public)
    /\ routes \in RouteSeqs
    /\ obj = NoDoc
    /\ generated = NoDoc
    /\ refs = NoRefs
    /\ files = NoFiles
    /\ calls = <<>>
    /\ route = Idle
    /\ auth = Idle
    /\ integ = Idle

OPTIONS_RESPONSES ==
    Dict("200" :>
        Dict([description |-> Str("200 response"),
              headers |->
                Dict(("Access-Control-Allow-Origin" :> PlainHeader)
                     @@ ("Access-Control-Allow-Methods" :> PlainHeader)
                     @@ ("Access-Control-Allow-Headers" :> PlainHeader))]))

OPTIONS_INTEGRATION ==
    Dict([responses |->
            Dict([default |->
                Dict([statusCode |-> Str("200"),
                      responseParameters |->
                        Dict(("method.response.header.Access-Control-Allow-Methods"
                                :> Str("'OPTIONS,HEAD,GET,POST,PUT,PATCH,DELETE'"))
                             @@ ("method.response.header.Access-Control-Allow-Headers"
                                :> Str("'Content-Type,X-Amz-Date,Authorization,X-Api-Key,X-Amz-Security-Token'"))
                             @@ ("method.response.header.Access-Control-Allow-Origin"
                                :> Str("'*'")))])]),
          passthroughBehavior |-> Str("when_no_match"),
          timeoutInMillis |-> Num(29000),
          requestTemplates |-> Dict("application/json" :> Str("{ \"statusCode\": 200 }")),
          type |-> Str("mock")])

\* the routes of the router add_options_routes returns: one per route of the app
add_options_routes(app_routes) ==
    [i \in 1..Len(app_routes) |->
        [path |-> app_routes[i].path,
         method |-> "OPTIONS",
         tags |-> app_routes[i].tags \o <<"CORS">>,
         responses |-> OPTIONS_RESPONSES,
         openapi_extra |-> Dict(INTEGRATION_KEY :> OPTIONS_INTEGRATION)]]

lower(method) ==
    CASE method = "GET" -> "get"
      [] method = "POST" -> "post"
      [] method = "PUT" -> "put"
      [] method = "DELETE" -> "delete"
      [] method = "OPTIONS" -> "options"

\* the operation fastapi documents for one route: its responses, its tags,
\* then the route's openapi_extra on top
openapi_operation(rt) ==
    LET extra_200 == IF "200" \in DOMAIN rt.responses.d
                     THEN rt.responses.d["200"].d ELSE <<>>
        base == ("summary" :> Str("endpoint"))
                @@ ("responses" :>
                        Dict("200" :> Dict(extra_200
                                @@ ("description" :> Str("Successful Response")))))
                @@ Opt(rt.tags # <<>>, "tags",
                       List([i \in 1..Len(rt.tags) |-> Str(rt.tags[i])]))
    IN  Dict(rt.openapi_extra.d @@ base)

RECURSIVE openapi_paths(_)
openapi_paths(rs) ==
    IF rs = <<>> THEN <<>>
    ELSE LET before == openapi_paths(SubSeq(rs, 1, Len(rs) - 1))
             rt == rs[Len(rs)]
             item == IF rt.path \in DOMAIN before
                     THEN before[rt.path].d ELSE <<>>
         IN  (rt.path :>
                Dict((lower(rt.method) :> openapi_operation(rt)) @@ item))
             @@ before

OPENAPI_VERSION == "3.0.1"

get_openapi(title, version, openapi_version, rs) ==
    Dict([openapi |-> Str(openapi_version),
          info |-> Dict([title |-> Str(title), version |-> Str(version)]),
          paths |-> Dict(openapi_paths(rs))])

ExportAddOptionsRoutes ==
    /\ pc = "export_start"
    /\ routes' = IF args.cors THEN routes \o add_options_routes(routes) ELSE routes
    /\ pc' = "export_routes"
    /\ UNCHANGED <<args, obj, generated, refs, files, calls, objVars>>

ExportGetOpenapi ==
    /\ pc = "export_routes"
    /\ obj' = get_openapi("untitled", "0.0.1", OPENAPI_VERSION, routes)
    /\ generated' = obj'
    /\ refs' = [refs EXCEPT !.openapi_schema = "obj"]
    /\ pc' = "export_schema"
    /\ UNCHANGED <<args, routes, files, calls, objVars>>

ExportAddCors ==
    /\ pc = "export_schema"
    /\ IF args.cors
       THEN LET r == add_cors_to_openapi(obj)
            IN  /\ obj' = r.doc
                /\ calls' = Append(calls, [fn |-> "add_cors_to_openapi",
                                           arg |-> obj, err |-> r.err])
                /\ pc' = IF r.err = "none" THEN "export_cors" ELSE "export_crashed"
       ELSE /\ pc' = "export_cors"
            /\ UNCHANGED <<obj, calls>>
    /\ UNCHANGED <<args, routes, generated, refs, files, objVars>>

\* private = openapi_schema; open(args.out_private, "w") raises TypeError for
\* the default None
ExportWritePrivate_scrubbed ==
    /\ pc = "export_cors"
    /\ refs' = [refs EXCEPT !.private = refs.openapi_schema]
    /\ IF args.out_private = None
       THEN /\ pc' = "export_crashed"
            /\ UNCHANGED files
       ELSE /\ files' = [files EXCEPT
                            !.out_private = json_dump(make_public_api_schema(obj))]
            /\ pc' = "export_private"
    /\ UNCHANGED <<args, routes, obj, generated, calls, objVars>>

ExportWritePrivate ==
    /\ pc = "export_cors"
    /\ refs' = [refs EXCEPT !.private = refs.openapi_schema]
    /\ IF args.out_private = None
       THEN /\ pc' = "export_crashed"
            /\ UNCHANGED files
       ELSE /\ files' = [files EXCEPT !.out_private = json_dump(obj)]
            /\ pc' = "export_private"
    /\ UNCHANGED <<args, routes, obj, generated, calls, objVars>>

\* public = make_public_api_schema(openapi_schema); json.dump(public, f)
\* (first a variant that scrubs a copy and leaves the caller's document alone)
ExportWritePublic_copy ==
    /\ pc = "export_private"
    /\ obj' = obj
    /\ calls' = Append(calls, [fn |-> "make_public_api_schema", arg |-> obj,
                               err |-> "none"])
    /\ refs' = [refs EXCEPT !.public = "copy"]
    /\ files' = [files EXCEPT !.out_public = json_dump(make_public_api_schema(obj))]
    /\ pc' = "export_done"
    /\ UNCHANGED <<args, routes, generated, objVars>>

ExportWritePublic ==
    /\ pc = "export_private"
    /\ obj' = make_public_api_schema(obj)
    /\ calls' = Append(calls, [fn |-> "make_public_api_schema", arg |-> obj,
                               err |-> "none"])
    /\ refs' = [refs EXCEPT !.public = refs.openapi_schema]
    /\ files' = [files EXCEPT !.out_public = json_dump(obj')]
    /\ pc' = "export_done"
    /\ UNCHANGED <<args, routes, generated, objVars>>

(***************************************************************************)
(* json.dumps of a dict of strings.  A Python dict keeps the order its     *)
(* keys were inserted in, so a template is a sequence of entries           *)
(* [k, kind, v, sub]: the key, then a string v (kind "str") or a nested    *)
(* dict sub (kind "dict").                                                 *)
(***************************************************************************)
Entry(k, v) == [k |-> k, kind |-> "str", v |-> v, sub |-> <<>>]

EntryDict(k, sub) == [k |-> k, kind |-> "dict", v |-> "", sub |-> sub]

\* an entry whose value is a str or None
EntryOf(k, x) ==
    IF x = None THEN [k |-> k, kind |-> "null", v |-> "", sub |-> <<>>] ELSE Entry(k, x)

\* the escapes json.dumps applies inside a string
RECURSIVE json_escape(_)
json_escape(str) ==
    IF Len(str) = 0 THEN ""
    ELSE LET c == SubSeq(str, 1, 1)
             rest == json_escape(SubSeq(str, 2, Len(str)))
         IN  CASE c = "\"" -> "\\\"" \o rest
               [] c = "\\" -> "\\\\" \o rest
               [] c = "\n" -> "\\n" \o rest
               [] OTHER -> c \o rest

json_string(str) == "\"" \o json_escape(str) \o "\""

RECURSIVE json_dumps(_)
json_dumps(entries) ==
    LET item(e) == json_string(e.k) \o ": " \o
                   (CASE e.kind = "str" -> json_string(e.v)
                      [] e.kind = "null" -> "null"
                      [] e.kind = "dict" -> json_dumps(e.sub))
        join[n \in 0..Len(entries)] ==
            IF n = 0 THEN ""
            ELSE IF n = 1 THEN item(entries[1])
            ELSE join[n - 1] \o ", " \o item(entries[n])
    IN  "{" \o join[Len(entries)] \o "}"

(***************************************************************************)
(* AWSAPIRoute (fastapi_aws/route.py).                                     *)
(***************************************************************************)
PyNone == [t |-> "none", d |-> <<>>, l |-> <<>>, s |-> ""]

\* a Python value used as a condition
Truthy(x) == x # None /\ x # ""

TruthyValue(v) ==
    CASE v.t = "none" -> FALSE
      [] v.t = "dict" -> DOMAIN v.d # {}
      [] v.t \in {"list", "tuple"} -> Len(v.l) > 0
      [] OTHER -> v.s # ""

\* a str-or-None as a JSON value
ToJson(x) == IF x = None THEN PyNone ELSE Str(x)

IndexOf(str, c, from) ==
    LET hits == {i \in from..Len(str) : SubSeq(str, i, i) = c}
    IN  IF hits = {} THEN 0 ELSE CHOOSE i \in hits : \A j \in hits : i <= j

RECURSIVE extract_path_parameters_reversed(_)
extract_path_parameters_reversed(path) ==
    LET open == IndexOf(path, "{", 1)
        close == IF open = 0 THEN 0 ELSE IndexOf(path, "}", open + 1)
    IN  IF open = 0 \/ close = 0 THEN <<>>
        ELSE LET fname == SubSeq(path, open + 1, close - 1)
                 rest == extract_path_parameters_reversed(
                            SubSeq(path, close + 1, Len(path)))
             IN  IF fname # "" THEN rest \o <<fname>> ELSE rest

\* [fname for _, fname, _, _ in Formatter().parse(path) if fname], for a path
\* whose braces are the placeholders' (no doubled brace, no format spec)
RECURSIVE extract_path_parameters(_)
extract_path_parameters(path) ==
    LET open == IndexOf(path, "{", 1)
        close == IF open = 0 THEN 0 ELSE IndexOf(path, "}", open + 1)
    IN  IF open = 0 \/ close = 0 THEN <<>>
        ELSE LET fname == SubSeq(path, open + 1, close - 1)
                 rest == extract_path_parameters(SubSeq(path, close + 1, Len(path)))
             IN  IF fname # "" THEN <<fname>> \o rest ELSE rest

\* the result of a method is [err, value]: err "none" and the value returned,
\* or the exception raised
Returned(value) == [err |-> "none", value |-> value]

Raised(err) == [err |-> err, value |-> PyNone]

create_integration(uri, integration_type, credentials, request_template, response_template) ==
    IF integration_type \notin {"aws", "aws_proxy"}
    THEN Raised("AssertionError")
    ELSE Returned(Dict(INTEGRATION_KEY :>
            Dict([uri |-> ToJson(uri),
                  httpMethod |-> Str("POST"),
                  type |-> Str(integration_type),
                  credentials |-> ToJson(credentials),
                  requestTemplates |->
                      Dict("application/json" :> Str(json_dumps(request_template))),
                  responses |-> response_template])))

\* a list of the strings of q
StrList(q) == List([i \in 1..Len(q) |-> Str(q[i])])

\* path_parameters is a value: None, a list, a str or a tuple; a name that is
\* not a str is written by the f-string and by json.dumps as str(name)
default_lambda_call(uri, iam_arn, path_parameters) ==
    LET base == << Entry("body", "$input.json('$')"),
                   Entry("httpMethod", "$context.httpMethod"),
                   Entry("resource", "$context.resourcePath"),
                   Entry("path", "$context.path") >>
        names == path_parameters.l
        request_template ==
            IF TruthyValue(path_parameters)
            THEN Append(base,
                    EntryDict("pathParameters",
                        [i \in 1..Len(names) |->
                            Entry(names[i].s,
                                  "$input.params('" \o names[i].s \o "')")]))
            ELSE base
        response_template == Dict([default |-> Dict([statusCode |-> Str("200")])])
    IN  IF TruthyValue(path_parameters) /\ path_parameters.t # "list"
        THEN Raised("ValueError")
        ELSE create_integration(uri, "aws_proxy", iam_arn, request_template,
                                response_template)

\* a mapping template: None, a dict of strings, or a string
NoTemplate == [kind |-> "none", entries |-> <<>>, text |-> ""]

DictTemplate(entries) == [kind |-> "dict", entries |-> entries, text |-> ""]

StrTemplate(text) == [kind |-> "str", entries |-> <<>>, text |-> text]

\* lines 226-229 of route.py, 151-154 of integrations.py
template_input(mapping_template) ==
    CASE mapping_template.kind = "none" -> "$input.json('$')"
      [] mapping_template.kind = "dict" -> json_dumps(mapping_template.entries)
      [] mapping_template.kind = "str" -> mapping_template.text

SFN_RESPONSE_TEMPLATE ==
    "#set($output = $util.parseJson($input.path('$.output')))\n$output.body"

default_step_function_base_call(uri, sfn_arn, iam_arn, path_parameters, mapping_template) ==
    LET input == template_input(mapping_template)
        request_template == << Entry("input", input),
                               EntryOf("stateMachineArn", sfn_arn),
                               Entry("region", "${region}") >>
        response_template ==
            Dict([default |->
                Dict([statusCode |-> Str("200"),
                      responseTemplates |->
                        Dict("application/json" :> Str(SFN_RESPONSE_TEMPLATE))])])
    IN  create_integration(uri, "aws", iam_arn, request_template, response_template)

SFN_SYNC_URI == "arn:aws:apigateway:${region}:states:action/StartSyncExecution"

SFN_ASYNC_URI == "arn:aws:apigateway:${region}:states:action/StartExecution"

default_step_function_sync_call(sfn_arn, iam_arn, path_parameters, mapping_template) ==
    default_step_function_base_call(SFN_SYNC_URI, sfn_arn, iam_arn, path_parameters,
                                    mapping_template)

default_step_function_call(sfn_arn, iam_arn, path_parameters, mapping_template) ==
    default_step_function_base_call(SFN_ASYNC_URI, sfn_arn, iam_arn, path_parameters,
                                    mapping_template)

(***************************************************************************)
(* AWSAPIRoute.__init__(path, endpoint, **kwargs), in three steps: the     *)
(* code before super().__init__, the parent constructor, the code after.   *)
(* route.kwargs is what the caller passed (a keyword left out has its      *)
(* default), route.self the attributes of the object.                      *)
(***************************************************************************)
LAMBDA_URI == "${lambda_uri}"

SFN_SYNC_ARN == "${sfn_sync_arn}"

SFN_ARN == "${sfn_arn}"

IAM_ARN == "${iam_arn}"

ExtraMetadata == "x-summary" :> Str("kept by the caller")

CallerIntegration == INTEGRATION_KEY :> Dict([type |-> Str("mock")])

RouteKwargs ==
    [aws_lambda_uri : {None, "", LAMBDA_URI},
     aws_sfn_sync_arn : {None, SFN_SYNC_ARN},
     aws_sfn_arn : {None, SFN_ARN},
     aws_iam_arn : {None, IAM_ARN},
     aws_mapping_template :
        {NoTemplate, DictTemplate(<<Entry("name", "$input.path('$.name')")>>),
         StrTemplate("$input.body")},
     openapi_extra :
        {PyNone, EmptyDict, Dict(ExtraMetadata), Dict(CallerIntegration),
         Dict(CallerIntegration @@ ExtraMetadata)}]

RoutePaths == {"/", "/user/{user_id}", "/org/{org_id}/user/{user_id}"}

InitRoute ==
    /\ pc = "route_start"
    /\ \E path \in RoutePaths, kwargs \in RouteKwargs :
          route = [path |-> path, kwargs |-> kwargs]
    /\ auth = Idle
    /\ integ = Idle
    /\ args = NoArgs
    /\ routes = <<>>
    /\ obj = NoDoc
    /\ generated = NoDoc
    /\ refs = NoRefs
    /\ files = NoFiles
    /\ calls = <<>>

\* lines 20-45: pop the keywords, require one source, remember a caller's block
RouteBeforeSuper ==
    /\ pc = "route_start"
    /\ LET kw == route.kwargs
           has_source == \/ Truthy(kw.aws_lambda_uri)
                         \/ Truthy(kw.aws_sfn_sync_arn)
                         \/ Truthy(kw.aws_sfn_arn)
                         \/ TruthyValue(kw.openapi_extra)
           integration ==
               IF TruthyValue(kw.openapi_extra)
                  /\ INTEGRATION_KEY \in DOMAIN kw.openapi_extra.d
               THEN kw.openapi_extra ELSE PyNone
           self == [aws_lambda_uri |-> kw.aws_lambda_uri,
                    aws_sfn_sync_arn |-> kw.aws_sfn_sync_arn,
                    aws_sfn_arn |-> kw.aws_sfn_arn,
                    aws_iam_arn |-> kw.aws_iam_arn,
                    aws_mapping_template |-> kw.aws_mapping_template,
                    openapi_extra |-> kw.openapi_extra,
                    path_format |-> Unbound]
       IN  IF ~has_source
           THEN /\ pc' = "route_raised"
                /\ route' = [path |-> route.path, kwargs |-> kw, self |-> self,
                             integration |-> PyNone, err |-> "ValueError",
                             super_done |-> FALSE]
           ELSE /\ pc' = "route_checked"
                /\ route' = [path |-> route.path, kwargs |-> kw, self |-> self,
                             integration |-> integration, err |-> "none",
                             super_done |-> FALSE]
    /\ UNCHANGED <<docVars, auth, integ>>

\* line 47: APIRoute.__init__ is not given openapi_extra (it was popped) and
\* sets self.openapi_extra to its default None; it also sets path_format
RouteSuper ==
    /\ pc = "route_checked"
    /\ route' = [route EXCEPT !.self.openapi_extra = PyNone,
                              !.self.path_format = route.path,
                              !.super_done = TRUE]
    /\ pc' = "route_super"
    /\ UNCHANGED <<docVars, auth, integ>>

\* lines 49-62: the integration the route is built from
\* (first a variant that tests the sources in the opposite order)
select_integration_first_arn(self, integration) ==
    IF Truthy(self.aws_sfn_arn)
    THEN default_step_function_call(self.aws_sfn_arn, self.aws_iam_arn, <<>>,
                                    self.aws_mapping_template)
    ELSE IF Truthy(self.aws_sfn_sync_arn)
    THEN default_step_function_sync_call(self.aws_sfn_sync_arn, self.aws_iam_arn,
                                         <<>>, self.aws_mapping_template)
    ELSE IF Truthy(self.aws_lambda_uri)
    THEN default_lambda_call(self.aws_lambda_uri, self.aws_iam_arn,
                             StrList(extract_path_parameters(self.path_format)))
    ELSE IF TruthyValue(integration) THEN Returned(integration)
    ELSE Raised("ValueError")

select_integration(self, integration) ==
    IF TruthyValue(integration) THEN Returned(integration)
    ELSE IF Truthy(self.aws_lambda_uri)
    THEN default_lambda_call(self.aws_lambda_uri, self.aws_iam_arn,
                             StrList(extract_path_parameters(self.path_format)))
    ELSE IF Truthy(self.aws_sfn_sync_arn)
    THEN default_step_function_sync_call(self.aws_sfn_sync_arn, self.aws_iam_arn,
                                         <<>>, self.aws_mapping_template)
    ELSE IF Truthy(self.aws_sfn_arn)
    THEN default_step_function_call(self.aws_sfn_arn, self.aws_iam_arn, <<>>,
                                    self.aws_mapping_template)
    ELSE Raised("ValueError")

\* lines 64-67: self.openapi_extra.update(integration)
merge_integration(openapi_extra, integration) ==
    LET target == IF openapi_extra.t = "none" THEN EmptyDict ELSE openapi_extra
    IN  Dict(integration.d @@ target.d)

RouteAfterSuper ==
    /\ pc = "route_super"
    /\ LET r == select_integration(route.self, route.integration)
       IN  IF r.err # "none"
           THEN /\ pc' = "route_raised"
                /\ route' = [route EXCEPT !.err = r.err]
           ELSE /\ pc' = "route_done"
                /\ route' = [route EXCEPT
                                !.integration = r.value,
                                !.self.openapi_extra =
                                    merge_integration(route.self.openapi_extra, r.value)]
    /\ UNCHANGED <<docVars, auth, integ>>

(***************************************************************************)
(* The authorizers (fastapi_aws/authorizers.py).  auth.kind names the      *)
(* class constructed, auth.kwargs what the caller passed (None for a       *)
(* keyword left out), auth.self the attributes of the object.  The         *)
(* constructor runs in three steps: the subclass's __init__ up to its      *)
(* super().__init__ call, AWSAuthorizer.__init__ up to _create_model, and  *)
(* _create_model of the class constructed.                                 *)
(***************************************************************************)
DEFAULT_HEADER_FIELDNAME == "Authorization"

DEFAULT_USER_POOL_ARN == "${cognito_user_pool_arn}"

AUTHORIZER_TYPES == {"token", "request", "cognito_user_pools"}

AUTHTYPE_KEY == "x-amazon-apigateway-authtype"

AUTHORIZER_KEY == "x-amazon-apigateway-authorizer"

AuthorizerCalls ==
    [kind : {"LambdaAuthorizer"},
     kwargs : [authorizer_name : {"my-authorizer"},
               auto_error : BOOLEAN,
               header_name : {None, "Authorization", "X-Api-Token"},
               aws_lambda_uri : {None, "${authorizer_uri}"},
               aws_iam_role_arn : {None, "${authorizer_role_arn}"}]]
    \cup
    [kind : {"CognitoAuthorizer"},
     kwargs : [authorizer_name : {"my-authorizer"},
               auto_error : BOOLEAN,
               user_pool_arn : {None, "", "${user_pool_arn}"}]]
    \cup
    [kind : {"APIKeyAuthorizer"},
     kwargs : [authorizer_name : {"my-authorizer"},
               auto_error : BOOLEAN,
               header_name : {None, "x-api-key"}]]
    \cup
    [kind : {"AWSAuthorizer"},
     kwargs : [authorizer_name : {"my-authorizer"},
               authorizer_type : AUTHORIZER_TYPES \cup {"oauth2"},
               auto_error : BOOLEAN,
               header_name : {None, "X-Api-Token"}]]

InitAuthorizer ==
    /\ pc = "auth_start"
    /\ \E call \in AuthorizerCalls :
          auth = [kind |-> call.kind, kwargs |-> call.kwargs]
    /\ route = Idle
    /\ integ = Idle
    /\ args = NoArgs
    /\ routes = <<>>
    /\ obj = NoDoc
    /\ generated = NoDoc
    /\ refs = NoRefs
    /\ files = NoFiles
    /\ calls = <<>>

NoSelf ==
    [scheme_name |-> Unbound, auto_error |-> Unbound, authorizer_type |-> Unbound,
     header_name |-> Unbound, aws_lambda_uri |-> Unbound,
     aws_iam_role_arn |-> Unbound, user_pool_arn |-> Unbound]

\* the subclass's __init__ up to super().__init__(...): what it leaves in self
\* and what it passes on, or the exception it raises
subclass_init(kind, kw) ==
    CASE kind = "LambdaAuthorizer" ->
            IF kw.aws_lambda_uri = None \/ kw.aws_iam_role_arn = None
            THEN [err |-> "AssertionError", self |-> NoSelf, super |-> <<>>]
            ELSE [err |-> "none",
                  self |-> [NoSelf EXCEPT !.header_name = kw.header_name,
                                          !.aws_lambda_uri = kw.aws_lambda_uri,
                                          !.aws_iam_role_arn = kw.aws_iam_role_arn],
                  super |-> [authorizer_name |-> kw.authorizer_name,
                             authorizer_type |-> "request",
                             auto_error |-> kw.auto_error,
                             header_name |-> None]]
      [] kind = "CognitoAuthorizer" ->
            [err |-> "none",
             self |-> [NoSelf EXCEPT !.user_pool_arn =
                          IF Truthy(kw.user_pool_arn) THEN kw.user_pool_arn
                          ELSE DEFAULT_USER_POOL_ARN],
             super |-> [authorizer_name |-> kw.authorizer_name,
                        authorizer_type |-> "cognito_user_pools",
                        auto_error |-> kw.auto_error,
                        header_name |-> None]]
      [] kind = "APIKeyAuthorizer" ->
            [err |-> "none",
             self |-> NoSelf,
             super |-> [authorizer_name |-> kw.authorizer_name,
                        authorizer_type |-> "token",
                        auto_error |-> kw.auto_error,
                        header_name |-> None]]
      [] kind = "AWSAuthorizer" ->
            [err |-> "none",
             self |-> NoSelf,
             super |-> [authorizer_name |-> kw.authorizer_name,
                        authorizer_type |-> kw.authorizer_type,
                        auto_error |-> kw.auto_error,
                        header_name |-> kw.header_name]]

AuthSubclassInit ==
    /\ pc = "auth_start"
    /\ LET r == subclass_init(auth.kind, auth.kwargs)
       IN  /\ auth' = [kind |-> auth.kind, kwargs |-> auth.kwargs, self |-> r.self,
                       super |-> r.super, model |-> PyNone, err |-> r.err]
           /\ pc' = IF r.err = "none" THEN "auth_base" ELSE "auth_raised"
    /\ UNCHANGED <<docVars, route, integ>>

\* AWSAuthorizer.__init__, lines 38-44
base_init(self, a) ==
    IF a.authorizer_type \notin AUTHORIZER_TYPES
    THEN [err |-> "AssertionError",
          self |-> [self EXCEPT !.scheme_name = a.authorizer_name,
                                !.auto_error = a.auto_error]]
    ELSE [err |-> "none",
          self |-> [self EXCEPT
                      !.scheme_name = a.authorizer_name,
                      !.auto_error = a.auto_error,
                      !.authorizer_type = a.authorizer_type,
                      !.header_name = IF Truthy(a.header_name) THEN a.header_name
                                      ELSE DEFAULT_HEADER_FIELDNAME]]

AuthBaseInit ==
    /\ pc = "auth_base"
    /\ LET r == base_init(auth.self, auth.super)
       IN  /\ auth' = [auth EXCEPT !.self = r.self, !.err = r.err]
           /\ pc' = IF r.err = "none" THEN "auth_model" ELSE "auth_raised"
    /\ UNCHANGED <<docVars, route, integ>>

\* LambdaAuthorizer._create_model
lambda_create_model(self) ==
    LET authorizer_params ==
            [type |-> Str(self.authorizer_type),
             authorizerUri |-> Str(self.aws_lambda_uri),
             authorizerCredentials |-> Str(self.aws_iam_role_arn),
             identityValidationExpression |-> Str("^x-[a-z]+"),
             authorizerResultTtlInSeconds |-> Num(60)]
        name == IF Truthy(self.header_name) THEN self.header_name
                ELSE DEFAULT_HEADER_FIELDNAME
        model(params) ==
            Dict(("type" :> Str("apiKey"))
                 @@ ("name" :> Str(name))
                 @@ ("in" :> Str("header"))
                 @@ (AUTHTYPE_KEY :> Str("custom"))
                 @@ (AUTHORIZER_KEY :> Dict(params)))
    IN  IF self.authorizer_type = "request"
        THEN IF self.header_name = None
             THEN Raised("AssertionError")
             ELSE Returned(model(
                    ("identitySource" :>
                        Str("method.request.header." \o self.header_name))
                    @@ authorizer_params))
        ELSE Returned(model(authorizer_params))

cognito_create_model_no_provider(self) ==
    Returned(
        Dict(("type" :> Str("apiKey"))
             @@ ("in" :> Str("header"))
             @@ ("name" :> Str("Authorization"))
             @@ (AUTHTYPE_KEY :> Str("cognito_user_pools"))
             @@ (AUTHORIZER_KEY :>
                    Dict([type |-> Str(self.authorizer_type),
                          providerARNs |->
                            IF self.user_pool_arn = DEFAULT_USER_POOL_ARN
                            THEN List(<<>>)
                            ELSE List(<<Str(self.user_pool_arn)>>)]))))

\* CognitoAuthorizer._create_model
cognito_create_model(self) ==
    Returned(
        Dict(("type" :> Str("apiKey"))
             @@ ("in" :> Str("header"))
             @@ ("name" :> Str("Authorization"))
             @@ (AUTHTYPE_KEY :> Str("cognito_user_pools"))
             @@ (AUTHORIZER_KEY :>
                    Dict([type |-> Str(self.authorizer_type),
                          providerARNs |-> List(<<Str(self.user_pool_arn)>>)]))))

create_model_api_key_built(kind, self) ==
    CASE kind = "LambdaAuthorizer" -> lambda_create_model(self)
      [] kind = "CognitoAuthorizer" -> cognito_create_model(self)
      [] kind = "APIKeyAuthorizer" ->
            Returned(Dict(("type" :> Str("apiKey")) @@ ("in" :> Str("header"))
                          @@ ("name" :> Str("x-api-key"))))
      [] kind = "AWSAuthorizer" -> Raised("NotImplementedError")

\* self._create_model() of the class constructed
create_model(kind, self) ==
    CASE kind = "LambdaAuthorizer" -> lambda_create_model(self)
      [] kind = "CognitoAuthorizer" -> cognito_create_model(self)
      [] kind = "APIKeyAuthorizer" -> Raised("NotImplementedError")
      [] kind = "AWSAuthorizer" -> Raised("NotImplementedError")

AuthCreateModel ==
    /\ pc = "auth_model"
    /\ LET r == create_model(auth.kind, auth.self)
       IN  /\ auth' = [auth EXCEPT !.model = r.value, !.err = r.err]
           /\ pc' = IF r.err = "none" THEN "auth_done" ELSE "auth_raised"
    /\ UNCHANGED <<docVars, route, integ>>

(***************************************************************************)
(* The integration builders (fastapi_aws/integrations.py).  Arguments that *)
(* are a str or None are strings; path_parameters, the templates and the   *)
(* dicts passed in are JSON values.  A builder returns [err, value, args]: *)
(* the descriptor (or the exception raised) and the caller's arguments as  *)
(* the call left them.                                                     *)
(***************************************************************************)
Contains(str, sub) ==
    \E i \in 1..(Len(str) - Len(sub) + 1) : SubSeq(str, i, i + Len(sub) - 1) = sub

\* (field or "")
OrEmpty(x) == IF Truthy(x) THEN x ELSE ""

Built(value, a) == [err |-> "none", value |-> value, args |-> a]

Failed(err, a) == [err |-> err, value |-> PyNone, args |-> a]

mock_integration(a) ==
    Built(Dict([uri |-> Str(""),
                integration_type |-> Str("mock"),
                request_template |-> Dict([statusCode |-> Num(200)]),
                responses |->
                    Dict([default |->
                        Dict([statusCode |-> Num(501),
                              responseTemplates |->
                                Dict("application/json" :>
                                    Str(json_dumps(<<Entry("status", "not implemented")>>)))])])]),
          a)

lambda_integration_swapped(a) ==
    Built(Dict([uri |-> ToJson(a.iam_arn),
                integration_type |-> Str(a.integration_type),
                http_method |-> Str("POST"),
                credentials |-> ToJson(a.uri),
                request_template |-> PyNone,
                request_parameters |-> PyNone,
                responses |-> Dict([default |-> Dict([statusCode |-> Str("200")])])]),
          a)

lambda_integration(a) ==
    IF TruthyValue(a.path_parameters) /\ a.path_parameters.t # "list"
    THEN Failed("ValueError", a)
    ELSE LET names == {a.path_parameters.l[i].s : i \in 1..Len(a.path_parameters.l)}
             request_parameters ==
                IF TruthyValue(a.path_parameters)
                THEN Dict([key \in {"integration.request.path." \o k : k \in names} |->
                            Str("method.request.path." \o
                                SubSeq(key, Len("integration.request.path.") + 1,
                                       Len(key)))])
                ELSE PyNone
             request_template ==
                IF TruthyValue(a.request_template)
                THEN Dict("application/json" :> a.request_template)
                ELSE a.request_template
             default_response ==
                IF TruthyValue(a.responses_template)
                THEN Dict(a.responses_template.d @@ [statusCode |-> Str("200")])
                ELSE Dict([statusCode |-> Str("200")])
         IN  Built(Dict([uri |-> ToJson(a.uri),
                         integration_type |-> Str(a.integration_type),
                         http_method |-> Str("POST"),
                         credentials |-> ToJson(a.iam_arn),
                         request_template |-> request_template,
                         request_parameters |-> request_parameters,
                         responses |-> Dict([default |-> default_response])]),
                   a)

step_function_integration_base(uri, sfn_arn, iam_arn, mapping_template, a) ==
    LET input == template_input(mapping_template)
        request_template ==
            Dict("application/json" :>
                Str(json_dumps(<< Entry("input", input),
                                  EntryOf("stateMachineArn", sfn_arn),
                                  Entry("region", "${region}") >>)))
        responses ==
            Dict([default |->
                Dict([statusCode |-> Str("200"),
                      responseTemplates |->
                        Dict("application/json" :> Str(SFN_RESPONSE_TEMPLATE))])])
    IN  Built(Dict([uri |-> Str(uri),
                    integration_type |-> Str("aws"),
                    http_method |-> Str("POST"),
                    credentials |-> ToJson(iam_arn),
                    request_template |-> request_template,
                    responses |-> responses]),
              a)

step_function_sync_integration(a) ==
    step_function_integration_base(SFN_SYNC_URI, a.sfn_arn, a.iam_arn,
                                   a.mapping_template, a)

step_function_integration_other_method(a) ==
    LET r == step_function_integration_base(SFN_ASYNC_URI, a.sfn_arn, a.iam_arn,
                                            a.mapping_template, a)
    IN  [r EXCEPT !.value = Dict([r.value.d EXCEPT !["http_method"] = Str("GET")])]

step_function_integration(a) ==
    step_function_integration_base(SFN_ASYNC_URI, a.sfn_arn, a.iam_arn,
                                   a.mapping_template, a)

\* "/".join([uri] + path_parameters)
RECURSIVE join_path(_, _)
join_path(uri, items) ==
    IF items = <<>> THEN uri
    ELSE join_path(uri \o "/" \o items[1].s, Tail(items))

S3_DEFAULT_RESPONSES ==
    Dict(("default" :> Dict([statusCode |-> Str("200")]))
         @@ ("4xx" :> Dict([statusCode |-> Str("404")]))
         @@ ("403" :> Dict([statusCode |-> Str("404")]))
         @@ ("404" :> Dict([statusCode |-> Str("404")])))

s3_integration_bare(a) ==
    LET bucket_uri == "arn:aws:apigateway:${region}:s3:path/" \o a.bucket_name
        responses == IF TruthyValue(a.responses) THEN a.responses
                     ELSE S3_DEFAULT_RESPONSES
        descriptor(uri) ==
            Dict([uri |-> Str(uri),
                  http_method |-> Str(a.http_method),
                  integration_type |-> Str("aws"),
                  credentials |-> ToJson(a.iam_arn),
                  responses |-> responses])
    IN  IF a.http_method \notin {"GET", "PUT", "DELETE"}
        THEN Failed("AssertionError", a)
        ELSE IF Truthy(a.object_key)
        THEN Built(descriptor(bucket_uri \o "/" \o a.object_key), a)
        ELSE IF /\ TruthyValue(a.path_parameters)
                /\ \/ a.path_parameters.t # "list"
                   \/ \E i \in 1..Len(a.path_parameters.l) :
                          a.path_parameters.l[i].t # "str"
        THEN Failed("TypeError", a)
        ELSE IF TruthyValue(a.path_parameters)
        THEN Built(descriptor(join_path(bucket_uri, a.path_parameters.l)), a)
        ELSE Built(descriptor(bucket_uri), a)

s3_integration_path_first(a) ==
    LET bucket_uri == "arn:aws:apigateway:${region}:s3:path/" \o a.bucket_name
        responses == IF TruthyValue(a.responses) THEN a.responses
                     ELSE S3_DEFAULT_RESPONSES
        descriptor(uri) ==
            Dict([uri |-> Str(uri),
                  http_method |-> Str(a.http_method),
                  integration_type |-> Str("aws"),
                  credentials |-> ToJson(a.iam_arn),
                  responses |-> responses])
    IN  IF a.http_method \notin {"GET", "PUT", "DELETE"}
        THEN Failed("AssertionError", a)
        ELSE IF Truthy(a.object_key) /\ ~TruthyValue(a.path_parameters)
        THEN Built(descriptor(bucket_uri \o "/" \o a.object_key), a)
        ELSE IF /\ TruthyValue(a.path_parameters)
                /\ \/ a.path_parameters.t # "list"
                   \/ \E i \in 1..Len(a.path_parameters.l) :
                          a.path_parameters.l[i].t # "str"
        THEN Failed("TypeError", a)
        ELSE IF TruthyValue(a.path_parameters)
        THEN Built(descriptor(join_path(bucket_uri, a.path_parameters.l)), a)
        ELSE Failed("ValueError", a)

s3_integration(a) ==
    LET bucket_uri == "arn:aws:apigateway:${region}:s3:path/" \o a.bucket_name
        responses == IF TruthyValue(a.responses) THEN a.responses
                     ELSE S3_DEFAULT_RESPONSES
        descriptor(uri) ==
            Dict([uri |-> Str(uri),
                  http_method |-> Str(a.http_method),
                  integration_type |-> Str("aws"),
                  credentials |-> ToJson(a.iam_arn),
                  responses |-> responses])
    IN  IF a.http_method \notin {"GET", "PUT", "DELETE"}
        THEN Failed("AssertionError", a)
        ELSE IF Truthy(a.object_key)
        THEN Built(descriptor(bucket_uri \o "/" \o a.object_key), a)
        ELSE IF /\ TruthyValue(a.path_parameters)
                /\ \/ a.path_parameters.t # "list"
                   \/ \E i \in 1..Len(a.path_parameters.l) :
                          a.path_parameters.l[i].t # "str"
        THEN Failed("TypeError", a)
        ELSE IF TruthyValue(a.path_parameters)
        THEN Built(descriptor(join_path(bucket_uri, a.path_parameters.l)), a)
        ELSE Failed("ValueError", a)

DYNAMODB_DEFAULT_PK == "$input.path('$.owner')#$input.path('$.project')"

DYNAMODB_DEFAULT_SK ==
    "$input.path('$.project')#$input.path('$.eventname')#$input.path('$.timestamp')"

DYNAMODB_DEFAULT_FIELDS == "\"timestamp\": { \"S\": \"$context.requestTime\" }"

DYNAMODB_DEFAULT_TTL == 2592000

create_put_item_mapping_template_swapped(table_name, ttl, pk_pattern, sk_pattern, fields) ==
    "\n#set($body = $util.parseJson($input.body))\n\n"
    \o "#set($nowEpochSeconds = $context.requestTimeEpoch / 1000)\n"
    \o "#set($expiration = $nowEpochSeconds + " \o ToString(ttl) \o ")\n\n"
    \o "{\n  \"TableName\": \"" \o table_name \o "\",\n  \"Item\": {\n"
    \o "    \"PK\": { \"S\": \"" \o sk_pattern \o "\" },\n"
    \o "    \"SK\": { \"S\": \"" \o pk_pattern \o "\" },\n"
    \o "    " \o fields \o "\n  }\n}"

create_put_item_mapping_template(table_name, ttl, pk_pattern, sk_pattern, fields) ==
    "\n#set($body = $util.parseJson($input.body))\n\n"
    \o "#set($nowEpochSeconds = $context.requestTimeEpoch / 1000)\n"
    \o "#set($expiration = $nowEpochSeconds + " \o ToString(ttl) \o ")\n\n"
    \o "{\n  \"TableName\": \"" \o table_name \o "\",\n  \"Item\": {\n"
    \o "    \"PK\": { \"S\": \"" \o pk_pattern \o "\" },\n"
    \o "    \"SK\": { \"S\": \"" \o sk_pattern \o "\" },\n"
    \o "    " \o fields \o "\n  }\n}"

create_query_mapping_template(table_name, query_expr) ==
    "\n{\n    \"TableName\": \"" \o table_name \o "\", " \o query_expr \o "\n}"

ORIGIN_PARAM == "$input.params('origin')"

ORIGIN_HEADER ==
    "integration.request.header.origin" :> Str("method.request.header.origin")

dynamodb_integration_any_method(a) ==
    IF a.table_name = None \/ a.mapping_template # None
    THEN Failed("AssertionError", a)
    ELSE IF FALSE
    THEN Failed("ValueError", a)
    ELSE IF a.http_method = "GET" /\ a.query_expr = None
    THEN Failed("AssertionError", a)
    ELSE
    LET uri == IF a.http_method = "POST"
               THEN "arn:aws:apigateway:${region}:dynamodb:action/PutItem"
               ELSE "arn:aws:apigateway:${region}:dynamodb:action/Query"
        mapping_template ==
            IF a.http_method = "POST"
            THEN create_put_item_mapping_template(
                    a.table_name, DYNAMODB_DEFAULT_TTL,
                    IF Truthy(a.pk_pattern) THEN a.pk_pattern ELSE DYNAMODB_DEFAULT_PK,
                    IF Truthy(a.sk_pattern) THEN a.sk_pattern ELSE DYNAMODB_DEFAULT_SK,
                    IF Truthy(a.field_patterns) THEN a.field_patterns
                    ELSE DYNAMODB_DEFAULT_FIELDS)
            ELSE create_query_mapping_template(a.table_name, a.query_expr)
        passed == a.request_parameters.t # "none"
        popped == IF passed THEN a.request_parameters ELSE EmptyDict
        wants_origin ==
            \E field \in {a.pk_pattern, a.sk_pattern, a.field_patterns, a.query_expr} :
                Contains(OrEmpty(field), ORIGIN_PARAM)
        request_parameters ==
            IF wants_origin THEN Dict(ORIGIN_HEADER @@ popped.d) ELSE popped
    IN  Built(Dict([uri |-> Str(uri),
                    integration_type |-> Str("aws"),
                    http_method |-> Str("POST"),
                    credentials |-> ToJson(a.iam_arn),
                    request_template |-> Dict("application/json" :> Str(mapping_template)),
                    responses |->
                        Dict(("default" :> Dict([statusCode |-> Str("200")]))
                             @@ ("4xx" :> Dict([statusCode |-> Str("400")]))
                             @@ ("5xx" :> Dict([statusCode |-> Str("500")]))),
                    request_parameters |-> request_parameters]),
              \* the dict the caller passed is the one that was updated
              IF passed THEN [a EXCEPT !.request_parameters = request_parameters]
              ELSE a)

dynamodb_integration_pk_only(a) ==
    IF a.table_name = None \/ a.mapping_template # None
    THEN Failed("AssertionError", a)
    ELSE IF a.http_method \notin {"POST", "GET"}
    THEN Failed("ValueError", a)
    ELSE IF a.http_method = "GET" /\ a.query_expr = None
    THEN Failed("AssertionError", a)
    ELSE
    LET uri == IF a.http_method = "POST"
               THEN "arn:aws:apigateway:${region}:dynamodb:action/PutItem"
               ELSE "arn:aws:apigateway:${region}:dynamodb:action/Query"
        mapping_template ==
            IF a.http_method = "POST"
            THEN create_put_item_mapping_template(
                    a.table_name, DYNAMODB_DEFAULT_TTL,
                    IF Truthy(a.pk_pattern) THEN a.pk_pattern ELSE DYNAMODB_DEFAULT_PK,
                    IF Truthy(a.sk_pattern) THEN a.sk_pattern ELSE DYNAMODB_DEFAULT_SK,
                    IF Truthy(a.field_patterns) THEN a.field_patterns
                    ELSE DYNAMODB_DEFAULT_FIELDS)
            ELSE create_query_mapping_template(a.table_name, a.query_expr)
        passed == a.request_parameters.t # "none"
        popped == IF passed THEN a.request_parameters ELSE EmptyDict
        wants_origin ==
            \E field \in {a.pk_pattern} :
                Contains(OrEmpty(field), ORIGIN_PARAM)
        request_parameters ==
            IF wants_origin THEN Dict(ORIGIN_HEADER @@ popped.d) ELSE popped
    IN  Built(Dict([uri |-> Str(uri),
                    integration_type |-> Str("aws"),
                    http_method |-> Str("POST"),
                    credentials |-> ToJson(a.iam_arn),
                    request_template |-> Dict("application/json" :> Str(mapping_template)),
                    responses |->
                        Dict(("default" :> Dict([statusCode |-> Str("200")]))
                             @@ ("4xx" :> Dict([statusCode |-> Str("400")]))
                             @@ ("5xx" :> Dict([statusCode |-> Str("500")]))),
                    request_parameters |-> request_parameters]),
              \* the dict the caller passed is the one that was updated
              IF passed THEN [a EXCEPT !.request_parameters = request_parameters]
              ELSE a)

dynamodb_integration(a) ==
    IF a.table_name = None \/ a.mapping_template # None
    THEN Failed("AssertionError", a)
    ELSE IF a.http_method \notin {"POST", "GET"}
    THEN Failed("ValueError", a)
    ELSE IF a.http_method = "GET" /\ a.query_expr = None
    THEN Failed("AssertionError", a)
    ELSE
    LET uri == IF a.http_method = "POST"
               THEN "arn:aws:apigateway:${region}:dynamodb:action/PutItem"
               ELSE "arn:aws:apigateway:${region}:dynamodb:action/Query"
        mapping_template ==
            IF a.http_method = "POST"
            THEN create_put_item_mapping_template(
                    a.table_name, DYNAMODB_DEFAULT_TTL,
                    IF Truthy(a.pk_pattern) THEN a.pk_pattern ELSE DYNAMODB_DEFAULT_PK,
                    IF Truthy(a.sk_pattern) THEN a.sk_pattern ELSE DYNAMODB_DEFAULT_SK,
                    IF Truthy(a.field_patterns) THEN a.field_patterns
                    ELSE DYNAMODB_DEFAULT_FIELDS)
            ELSE create_query_mapping_template(a.table_name, a.query_expr)
        passed == a.request_parameters.t # "none"
        popped == IF passed THEN a.request_parameters ELSE EmptyDict
        wants_origin ==
            \E field \in {a.pk_pattern, a.sk_pattern, a.field_patterns, a.query_expr} :
                Contains(OrEmpty(field), ORIGIN_PARAM)
        request_parameters ==
            IF wants_origin THEN Dict(ORIGIN_HEADER @@ popped.d) ELSE popped
    IN  Built(Dict([uri |-> Str(uri),
                    integration_type |-> Str("aws"),
                    http_method |-> Str("POST"),
                    credentials |-> ToJson(a.iam_arn),
                    request_template |-> Dict("application/json" :> Str(mapping_template)),
                    responses |->
                        Dict(("default" :> Dict([statusCode |-> Str("200")]))
                             @@ ("4xx" :> Dict([statusCode |-> Str("400")]))
                             @@ ("5xx" :> Dict([statusCode |-> Str("500")]))),
                    request_parameters |-> request_parameters]),
              \* the dict the caller passed is the one that was updated
              IF passed THEN [a EXCEPT !.request_parameters = request_parameters]
              ELSE a)

PathParameterChoices ==
    {PyNone, List(<<>>), List(<<Str("user_id")>>),
     List(<<Str("folder"), Str("name")>>), Str("user_id"),
     Str(""), Tuple(<<>>), Tuple(<<Str("user_id")>>), List(<<Num(24)>>)}

TemplateChoices ==
    {NoTemplate, DictTemplate(<<Entry("name", "$input.path('$.name')")>>),
     StrTemplate("$input.body")}

IntegrationCalls ==
    [fn : {"mock_integration"},
     args : [uri : {LAMBDA_URI}, iam_arn : {IAM_ARN},
             path_parameters : {PyNone, List(<<Str("user_id")>>)}]]
    \cup
    [fn : {"lambda_integration"},
     args : [uri : {LAMBDA_URI}, iam_arn : {None, IAM_ARN},
             integration_type : {"aws_proxy", "aws"},
             path_parameters : PathParameterChoices,
             request_template : {PyNone, Str("$input.json('$')")},
             responses_template :
                {PyNone, Dict([statusCode |-> Str("201")]),
                 Dict([responseTemplates |-> Dict("application/json" :> Str("$input.body"))])}]]
    \cup
    [fn : {"step_function_sync_integration", "step_function_integration"},
     args : [sfn_arn : {SFN_ARN}, iam_arn : {None, IAM_ARN},
             path_parameters : {PyNone, List(<<Str("user_id")>>)},
             mapping_template : TemplateChoices]]
    \cup
    [fn : {"s3_integration"},
     args : [bucket_name : {"my-bucket"}, iam_arn : {None, IAM_ARN},
             path_parameters : PathParameterChoices,
             http_method : {"GET", "PUT", "DELETE", "POST"},
             object_key : {None, "", "${object_key}"},
             responses : {PyNone, Dict([default |-> Dict([statusCode |-> Str("204")])])}]]
    \cup
    [fn : {"dynamodb_integration"},
     args : [table_name : {"events-table"}, iam_arn : {None, IAM_ARN},
             http_method : {"POST", "GET", "PUT"},
             mapping_template : {None, "{ \"TableName\": \"events-table\" }"},
             pk_pattern : {None, "", "USER#$input.params('origin')"},
             sk_pattern : {None, "EVENT#$context.requestTimeEpoch"},
             field_patterns :
                {None, "\"origin\": { \"S\": \"$input.params('origin')\" }"},
             query_expr :
                {None, "\"KeyConditionExpression\": \"PK = :pk\""},
             request_parameters :
                {PyNone,
                 Dict("integration.request.header.x-trace" :>
                        Str("method.request.header.x-trace"))}]]

InitIntegration ==
    /\ pc = "integ_start"
    /\ \E call \in IntegrationCalls : integ = [fn |-> call.fn, args |-> call.args]
    /\ route = Idle
    /\ auth = Idle
    /\ args = NoArgs
    /\ routes = <<>>
    /\ obj = NoDoc
    /\ generated = NoDoc
    /\ refs = NoRefs
    /\ files = NoFiles
    /\ calls = <<>>

\* the call returns or raises; integ.args keeps the arguments as passed,
\* integ.after the same objects once the call is over
Finish(r) ==
    /\ integ' = [fn |-> integ.fn, args |-> integ.args, err |-> r.err,
                 value |-> r.value, after |-> r.args]
    /\ pc' = IF r.err = "none" THEN "integ_returned" ELSE "integ_raised"
    /\ UNCHANGED <<docVars, route, auth>>

CallMockIntegration ==
    /\ pc = "integ_start"
    /\ integ.fn = "mock_integration"
    /\ Finish(mock_integration(integ.args))

CallLambdaIntegration ==
    /\ pc = "integ_start"
    /\ integ.fn = "lambda_integration"
    /\ Finish(lambda_integration(integ.args))

CallStepFunctionSyncIntegration ==
    /\ pc = "integ_start"
    /\ integ.fn = "step_function_sync_integration"
    /\ Finish(step_function_sync_integration(integ.args))

CallStepFunctionIntegration ==
    /\ pc = "integ_start"
    /\ integ.fn = "step_function_integration"
    /\ Finish(step_function_integration(integ.args))

CallS3Integration ==
    /\ pc = "integ_start"
    /\ integ.fn = "s3_integration"
    /\ Finish(s3_integration(integ.args))

CallDynamodbIntegration ==
    /\ pc = "integ_start"
    /\ integ.fn = "dynamodb_integration"
    /\ Finish(dynamodb_integration(integ.args))

(***************************************************************************)
(* AWSAPIRoute._default_lambda_call called on a route object by a caller   *)
(* that chooses the arguments.                                             *)
(***************************************************************************)
MethodCalls ==
    [fn : {"_default_lambda_call"},
     args : [uri : {LAMBDA_URI}, iam_arn : {None, IAM_ARN},
             path_parameters : PathParameterChoices]]

InitMethod ==
    /\ pc = "method_start"
    /\ \E call \in MethodCalls : integ = [fn |-> call.fn, args |-> call.args]
    /\ route = Idle
    /\ auth = Idle
    /\ args = NoArgs
    /\ routes = <<>>
    /\ obj = NoDoc
    /\ generated = NoDoc
    /\ refs = NoRefs
    /\ files = NoFiles
    /\ calls = <<>>

CallDefaultLambdaCall ==
    /\ pc = "method_start"
    /\ integ.fn = "_default_lambda_call"
    /\ LET r == default_lambda_call(integ.args.uri, integ.args.iam_arn,
                                    integ.args.path_parameters)
       IN  /\ integ' = [fn |-> integ.fn, args |-> integ.args, err |-> r.err,
                        value |-> r.value, after |-> integ.args]
           /\ pc' = IF r.err = "none" THEN "method_returned" ELSE "method_raised"
    /\ UNCHANGED <<docVars, route, auth>>

(***************************************************************************)
(* The router: router.get/post/put/delete(path, **kwargs)(endpoint)        *)
(* constructs the route class with the method fixed and adds the route to  *)
(* router.routes; the document is then generated from the routes.  The     *)
(* keywords a registration leaves out have their defaults.                 *)
(***************************************************************************)
RouterKwargs(method) ==
    [aws_lambda_uri |-> None, aws_sfn_sync_arn |-> None, aws_sfn_arn |-> None,
     aws_iam_arn |-> None, aws_mapping_template |-> NoTemplate,
     openapi_extra |-> PyNone, methods |-> method,
     aws_dynamodb_table_name |-> None, aws_dynamodb_pk_pattern |-> None,
     aws_dynamodb_sk_pattern |-> None]

RouterRegistrations ==
    {[path |-> "/",
      kwargs |-> [RouterKwargs(method) EXCEPT !.aws_lambda_uri = LAMBDA_URI,
                                              !.aws_iam_arn = IAM_ARN]]
        : method \in {"GET", "POST", "PUT", "DELETE"}}
    \cup
    {[path |-> "/events",
      kwargs |-> [RouterKwargs("POST") EXCEPT
                    !.aws_dynamodb_table_name = "events-table",
                    !.aws_iam_arn = IAM_ARN,
                    !.aws_dynamodb_pk_pattern = "USER#$input.params('origin')",
                    !.aws_dynamodb_sk_pattern = "EVENT#$context.requestTimeEpoch"]]}

InitRouter ==
    /\ pc = "router_ready"
    /\ routes = <<>>
    /\ route = Idle
    /\ auth = Idle
    /\ integ = Idle
    /\ args = NoArgs
    /\ obj = NoDoc
    /\ generated = NoDoc
    /\ refs = NoRefs
    /\ files = NoFiles
    /\ calls = <<>>

\* the method decorator: the route class is constructed with the caller's
\* keywords and methods=[method]
RouterMethod ==
    /\ pc = "router_ready"
    /\ Len(routes) < MaxRoutes
    /\ \E reg \in RouterRegistrations :
          route' = [path |-> reg.path, kwargs |-> reg.kwargs]
    /\ pc' = "route_start"
    /\ UNCHANGED <<docVars, auth, integ>>

\* the constructed route is added to router.routes
RouterAddRoute ==
    /\ pc = "route_done"
    /\ "methods" \in DOMAIN route.kwargs
    /\ routes' = Append(routes,
                    [path |-> route.path, method |-> route.kwargs.methods,
                     tags |-> <<>>, responses |-> EmptyDict,
                     openapi_extra |-> route.self.openapi_extra,
                     kwargs |-> route.kwargs])
    /\ route' = Idle
    /\ pc' = "router_ready"
    /\ UNCHANGED <<args, obj, generated, refs, files, calls, auth, integ>>

\* app.openapi(): the document of the routes registered so far
RouterOpenapi ==
    /\ pc = "router_ready"
    /\ obj' = get_openapi("untitled", "0.0.1", OPENAPI_VERSION, routes)
    /\ generated' = obj'
    /\ pc' = "router_done"
    /\ UNCHANGED <<args, routes, refs, files, calls, objVars>>

Init ==
    \/ InitRouter
    \/ InitPostproc
    \/ InitExport
    \/ InitRoute
    \/ InitAuthorizer
    \/ InitIntegration
    \/ InitMethod

Next ==
    \/ CallMakePublic
    \/ CallAddCors
    \/ ExportAddOptionsRoutes
    \/ ExportGetOpenapi
    \/ ExportAddCors
    \/ ExportWritePrivate
    \/ ExportWritePublic
    \/ RouteBeforeSuper
    \/ RouteSuper
    \/ RouteAfterSuper
    \/ AuthSubclassInit
    \/ AuthBaseInit
    \/ AuthCreateModel
    \/ CallMockIntegration
    \/ CallLambdaIntegration
    \/ CallStepFunctionSyncIntegration
    \/ CallStepFunctionIntegration
    \/ CallS3Integration
    \/ CallDynamodbIntegration
    \/ CallDefaultLambdaCall
    \/ RouterMethod
    \/ RouterAddRoute
    \/ RouterOpenapi

vars == <<pc, args, routes, obj, generated, refs, files, calls, route, auth, integ>>

Spec == Init /\ [][Next]_vars

(***************************************************************************)
(* Properties of the schema post-processor and of the export step.         *)
(***************************************************************************)
IsVendorKey(key) ==
    /\ Len(key) >= Len("x-amazon-apigateway-")
    /\ SubSeq(key, 1, Len("x-amazon-apigateway-")) = "x-amazon-apigateway-"

\* where the vendor keys of a value are: the keys and list positions that lead
\* to each of them
RECURSIVE VendorKeyPaths(_)
VendorKeyPaths(v) ==
    IF v.t = "dict"
    THEN {<<key>> : key \in {k \in DOMAIN v.d : IsVendorKey(k)}}
         \cup UNION {{<<key>> \o p : p \in VendorKeyPaths(v.d[key])} : key \in DOMAIN v.d}
    ELSE IF v.t = "list"
    THEN UNION {{<<ToString(i)>> \o p : p \in VendorKeyPaths(v.l[i])} : i \in 1..Len(v.l)}
    ELSE {}

\* the document as call number i left it
After(i) == IF i = Len(calls) THEN obj ELSE calls[i + 1].arg

MadePublic(i) == calls[i].fn = "make_public_api_schema" /\ calls[i].err = "none"

AddedCors(i) == calls[i].fn = "add_cors_to_openapi" /\ calls[i].err = "none"

\* C1: after make_public_api_schema no key matching x-amazon-apigateway-* is
\* left at any depth of the document, in dicts, in dicts that are elements of
\* lists and in lists nested inside lists.
C1_NoVendorKeyLeft ==
    \A i \in 1..Len(calls) : MadePublic(i) => VendorKeyPaths(After(i)) = {}

\* a vendor key in a dict that is an element of a list nested inside a list
C1_Witness ==
    /\ Len(calls) = 1
    /\ MadePublic(1)
    /\ calls[1].arg = List(<<List(<<Dict(INTEGRATION_KEY :> Str("text"))>>)>>)
    /\ obj = List(<<List(<<EmptyDict>>)>>)

\* C2: make_public_api_schema is idempotent: a second call on the result of a
\* first one changes nothing.
C2_Idempotent ==
    \A i \in 1..(Len(calls) - 1) :
        (MadePublic(i) /\ MadePublic(i + 1)) => After(i + 1) = calls[i + 1].arg

\* two calls in a row, the first of which removed two keys of one dict
C2_Witness ==
    /\ Len(calls) = 2
    /\ MadePublic(1)
    /\ MadePublic(2)
    /\ \E p \in VendorKeyPaths(calls[1].arg), q \in VendorKeyPaths(calls[1].arg) :
          /\ p # q
          /\ Len(p) = Len(q)
          /\ SubSeq(p, 1, Len(p) - 1) = SubSeq(q, 1, Len(q) - 1)

\* C3: the document written to --out-private carries every vendor key of the
\* generated schema, the document written to --out-public carries none, and
\* the scrub is applied only after the private document was written.
C3_PrivateBeforeScrub ==
    /\ files.out_private # Unwritten =>
          VendorKeyPaths(files.out_private.json) = VendorKeyPaths(generated)
    /\ files.out_public # Unwritten =>
          VendorKeyPaths(files.out_public.json) = {}
    /\ (\E i \in 1..Len(calls) : MadePublic(i)) /\ refs.openapi_schema # Unbound =>
          files.out_private # Unwritten

C3_Witness ==
    /\ pc = "export_done"
    /\ VendorKeyPaths(generated) # {}
    /\ files.out_private # Unwritten
    /\ files.out_public # Unwritten

CorsHeaderNames ==
    { "Access-Control-Allow-Origin", "Access-Control-Allow-Headers",
      "Access-Control-Allow-Methods" }

\* <<path, method, status>> of every response entry of every operation
ResponsesOf(doc) ==
    IF "paths" \notin DOMAIN doc.d THEN {}
    ELSE LET paths == doc.d["paths"].d
         IN  UNION {UNION {
                IF "responses" \in DOMAIN paths[path].d[method].d
                THEN {<<path, method, status>> :
                        status \in DOMAIN paths[path].d[method].d["responses"].d}
                ELSE {}
                    : method \in DOMAIN paths[path].d} : path \in DOMAIN paths}

ResponseAt(doc, x) == doc.d["paths"].d[x[1]].d[x[2]].d["responses"].d[x[3]]

HeadersOf(response) ==
    IF "headers" \in DOMAIN response.d THEN response.d["headers"].d ELSE <<>>

WithoutKey(v, key) == Dict([k \in (DOMAIN v.d) \ {key} |-> v.d[k]])

\* the document without the 'headers' of its responses
EraseHeaders(doc) ==
    IF "paths" \notin DOMAIN doc.d THEN doc
    ELSE LET paths == doc.d["paths"].d
             erased(details) ==
                IF "responses" \notin DOMAIN details.d THEN details
                ELSE SetItem(details, "responses",
                        Dict([status \in DOMAIN details.d["responses"].d |->
                                WithoutKey(details.d["responses"].d[status], "headers")]))
         IN  SetItem(doc, "paths",
                Dict([path \in DOMAIN paths |->
                        Dict([method \in DOMAIN paths[path].d |->
                                erased(paths[path].d[method])])]))

\* C8: after add_cors_to_openapi every response entry of every operation has the
\* three CORS headers; exactly these three names are added, headers of other
\* names are kept, and nothing but the 'headers' of responses changes.
C8_CorsHeadersAdded ==
    \A i \in 1..Len(calls) :
        AddedCors(i) =>
            LET before == calls[i].arg
                after == After(i)
            IN  /\ ResponsesOf(after) = ResponsesOf(before)
                /\ \A x \in ResponsesOf(after) :
                      LET hb == HeadersOf(ResponseAt(before, x))
                          ha == HeadersOf(ResponseAt(after, x))
                      IN  /\ "headers" \in DOMAIN ResponseAt(after, x).d
                          /\ DOMAIN ha = (DOMAIN hb) \cup CorsHeaderNames
                          /\ \A h \in (DOMAIN hb) \ CorsHeaderNames : ha[h] = hb[h]
                /\ EraseHeaders(after) = EraseHeaders(before)

\* a response that had a header of another name, and one that had no headers
C8_Witness ==
    /\ Len(calls) = 1
    /\ AddedCors(1)
    /\ \E x \in ResponsesOf(calls[1].arg), y \in ResponsesOf(calls[1].arg) :
          /\ "X-Request-Id" \in DOMAIN HeadersOf(ResponseAt(calls[1].arg, x))
          /\ "X-Request-Id" \in DOMAIN HeadersOf(ResponseAt(obj, x))
          /\ "headers" \notin DOMAIN ResponseAt(calls[1].arg, y).d

\* C9: add_cors_to_openapi and make_public_api_schema never raise, whatever
\* OpenAPI document they are given (with or without 'paths').
C9_Total ==
    \A i \in 1..Len(calls) : calls[i].err = "none"

(***************************************************************************)
(* Properties of AWSAPIRoute.                                              *)
(***************************************************************************)
RouteEnded == pc \in {"route_done", "route_raised"}

\* the integration sources the caller supplied
SuppliedSources(kw) ==
    {name \in {"aws_lambda_uri", "aws_sfn_sync_arn", "aws_sfn_arn"} : Truthy(kw[name])}
    \cup (IF kw.openapi_extra.t = "dict" /\ INTEGRATION_KEY \in DOMAIN kw.openapi_extra.d
          THEN {"openapi_extra"} ELSE {})

\* C4: construction succeeds only when exactly one integration source is
\* supplied; with none or with more than one it fails with ValueError.
C4_ExactlyOneSource ==
    /\ pc = "route_done" => Cardinality(SuppliedSources(route.kwargs)) = 1
    /\ (RouteEnded /\ Cardinality(SuppliedSources(route.kwargs)) # 1) =>
          (pc = "route_raised" /\ route.err = "ValueError")

\* C5: after construction the route's openapi_extra contains the integration
\* descriptor and every key the caller passed in openapi_extra.
C5_MetadataKept ==
    pc = "route_done" =>
        /\ INTEGRATION_KEY \in DOMAIN route.self.openapi_extra.d
        /\ route.kwargs.openapi_extra.t = "dict" =>
              \A key \in DOMAIN route.kwargs.openapi_extra.d :
                  key \in DOMAIN route.self.openapi_extra.d

(***************************************************************************)
(* Properties of the authorizers.                                          *)
(***************************************************************************)
IsLambdaAuthorizer == pc \in {"auth_done", "auth_raised"} /\ auth.kind = "LambdaAuthorizer"

\* C6: a LambdaAuthorizer constructed with header_name H has a scheme named H
\* whose authorizer has identitySource 'method.request.header.H', type
\* 'request', authtype 'custom' and the caller's uri and credentials.
C6_HeaderNameUsed ==
    (IsLambdaAuthorizer
     /\ auth.kwargs.header_name # None
     /\ auth.kwargs.aws_lambda_uri # None
     /\ auth.kwargs.aws_iam_role_arn # None) =>
        /\ pc = "auth_done"
        /\ auth.model.d["name"] = Str(auth.kwargs.header_name)
        /\ auth.model.d[AUTHTYPE_KEY] = Str("custom")
        /\ LET authorizer == auth.model.d[AUTHORIZER_KEY].d
           IN  /\ authorizer["identitySource"] =
                      Str("method.request.header." \o auth.kwargs.header_name)
               /\ authorizer["type"] = Str("request")
               /\ authorizer["authorizerUri"] = Str(auth.kwargs.aws_lambda_uri)
               /\ authorizer["authorizerCredentials"] = Str(auth.kwargs.aws_iam_role_arn)

\* C7: constructing a LambdaAuthorizer without header_name, without
\* aws_lambda_uri or without aws_iam_role_arn fails with an assertion: no
\* such authorizer is ever built.
C7_HeaderNameRequired ==
    (IsLambdaAuthorizer
     /\ \/ auth.kwargs.header_name = None
        \/ auth.kwargs.aws_lambda_uri = None
        \/ auth.kwargs.aws_iam_role_arn = None) =>
        (pc = "auth_raised" /\ auth.err = "AssertionError")

(***************************************************************************)
(* Properties of the integration builders.                                 *)
(***************************************************************************)
Returns(fn) == pc = "integ_returned" /\ integ.fn = fn

\* the identifier of the target the caller passed to the builder
TargetOf(fn, a) ==
    CASE fn \in {"mock_integration", "lambda_integration"} -> a.uri
      [] fn \in {"step_function_sync_integration", "step_function_integration"} -> a.sfn_arn
      [] fn = "s3_integration" -> a.bucket_name
      [] fn = "dynamodb_integration" -> a.table_name

\* C10 as stated: for every integration kind the descriptor's uri and
\* credentials (and type, where the caller chooses it) are the caller's target
\* identifier and IAM credential, verbatim.
C10_IdentifiersVerbatim ==
    pc = "integ_returned" =>
        /\ integ.value.d["uri"] = ToJson(TargetOf(integ.fn, integ.args))
        /\ "credentials" \in DOMAIN integ.value.d
        /\ integ.value.d["credentials"] = ToJson(integ.args.iam_arn)
        /\ integ.fn = "lambda_integration" =>
              integ.value.d["integration_type"] = Str(integ.args.integration_type)

\* C10 as amended: lambda_integration returns the caller's uri, type and IAM
\* credential verbatim; the Step Function, S3 and DynamoDB builders return the
\* caller's IAM credential verbatim and type 'aws', with the uri of the service
\* action, the caller's target being carried by the request template or by the
\* path of the uri; mock_integration returns uri '' and type 'mock' and no
\* credentials.
C10_Amended ==
    pc = "integ_returned" =>
        LET a == integ.args
            v == integ.value.d
            template == v["request_template"].d["application/json"].s
        IN  /\ integ.fn = "lambda_integration" =>
                  /\ v["uri"] = ToJson(a.uri)
                  /\ v["credentials"] = ToJson(a.iam_arn)
                  /\ v["integration_type"] = Str(a.integration_type)
            /\ integ.fn \in {"step_function_sync_integration",
                             "step_function_integration", "s3_integration",
                             "dynamodb_integration"} =>
                  /\ v["credentials"] = ToJson(a.iam_arn)
                  /\ v["integration_type"] = Str("aws")
            /\ integ.fn = "step_function_sync_integration" =>
                  /\ v["uri"] = Str("arn:aws:apigateway:${region}:states:action/StartSyncExecution")
                  /\ Contains(template, "\"stateMachineArn\": \"" \o a.sfn_arn \o "\"")
            /\ integ.fn = "step_function_integration" =>
                  /\ v["uri"] = Str("arn:aws:apigateway:${region}:states:action/StartExecution")
                  /\ Contains(template, "\"stateMachineArn\": \"" \o a.sfn_arn \o "\"")
            /\ integ.fn = "s3_integration" =>
                  LET prefix == "arn:aws:apigateway:${region}:s3:path/" \o a.bucket_name \o "/"
                  IN  /\ Len(v["uri"].s) > Len(prefix)
                      /\ SubSeq(v["uri"].s, 1, Len(prefix)) = prefix
            /\ integ.fn = "dynamodb_integration" =>
                  /\ v["uri"] = Str(IF a.http_method = "POST"
                                    THEN "arn:aws:apigateway:${region}:dynamodb:action/PutItem"
                                    ELSE "arn:aws:apigateway:${region}:dynamodb:action/Query")
                  /\ Contains(template, "\"TableName\": \"" \o a.table_name \o "\"")
            /\ integ.fn = "mock_integration" =>
                  /\ v["uri"] = Str("")
                  /\ v["integration_type"] = Str("mock")
                  /\ "credentials" \notin DOMAIN v

\* a Step Function descriptor: the caller's ARN is in the template, not the uri
C10_Witness ==
    /\ Returns("step_function_sync_integration")
    /\ integ.args.iam_arn = IAM_ARN
    /\ integ.value.d["uri"] # Str(integ.args.sfn_arn)
    /\ integ.value.d["credentials"] = Str(IAM_ARN)

(***************************************************************************)
(* Properties of the descriptors' required fields.                         *)
(***************************************************************************)
\* a value that is a string with at least one character
NonEmptyString(v) == v.t = "str" /\ v.s # ""

\* the route built its descriptor itself (the caller passed no block)
RouteBuiltDescriptor ==
    /\ pc = "route_done"
    /\ SuppliedSources(route.kwargs) \cap {"openapi_extra"} = {}

\* C11: every descriptor of a non-mock kind, from a builder or from
\* AWSAPIRoute, has a present, non-empty uri and a present, non-empty
\* credentials value.
C11_UriAndCredentialsPresent ==
    /\ (pc = "integ_returned" /\ integ.fn # "mock_integration") =>
          /\ {"uri", "credentials"} \subseteq DOMAIN integ.value.d
          /\ NonEmptyString(integ.value.d["uri"])
          /\ NonEmptyString(integ.value.d["credentials"])
    /\ RouteBuiltDescriptor =>
          LET block == route.self.openapi_extra.d[INTEGRATION_KEY].d
          IN  /\ {"uri", "credentials"} \subseteq DOMAIN block
              /\ NonEmptyString(block["uri"])
              /\ NonEmptyString(block["credentials"])

(***************************************************************************)
(* Properties of the Lambda builders.                                      *)
(***************************************************************************)
\* a call of one of the two Lambda builders is over
LambdaBuilderEnded ==
    \/ pc \in {"integ_returned", "integ_raised"} /\ integ.fn = "lambda_integration"
    \/ pc \in {"method_returned", "method_raised"} /\ integ.fn = "_default_lambda_call"

IsListOfStrings(v) ==
    v.t = "list" /\ \A i \in 1..Len(v.l) : v.l[i].t = "str"

\* C12: the Lambda builders fail with ValueError whenever the path_parameters
\* the caller passed is not a list of strings: a value that is not a list
\* (the empty string and the empty tuple included) or a list with an element
\* that is not a string.
C12_PathParametersChecked ==
    (/\ LambdaBuilderEnded
     /\ integ.args.path_parameters.t # "none"
     /\ ~IsListOfStrings(integ.args.path_parameters)) =>
        integ.err = "ValueError"

\* the route built a Lambda descriptor from aws_lambda_uri
RouteBuiltLambda ==
    /\ RouteBuiltDescriptor
    /\ Truthy(route.kwargs.aws_lambda_uri)

\* the placeholders of the path templates, in order of appearance
PlaceholdersOf(path) ==
    CASE path = "/" -> <<>>
      [] path = "/user/{user_id}" -> <<"user_id">>
      [] path = "/org/{org_id}/user/{user_id}" -> <<"org_id", "user_id">>

\* the four fields of the Lambda request template, as JSON members
LambdaBaseMembers ==
    "\"body\": \"$input.json('$')\", \"httpMethod\": \"$context.httpMethod\", "
    \o "\"resource\": \"$context.resourcePath\", \"path\": \"$context.path\""

\* n -> "$input.params('n')" as a JSON member
PathParameterMember(n) == "\"" \o n \o "\": \"$input.params('" \o n \o "')\""

ExpectedLambdaTemplate(names) ==
    CASE Len(names) = 0 -> "{" \o LambdaBaseMembers \o "}"
      [] Len(names) = 1 ->
            "{" \o LambdaBaseMembers \o ", \"pathParameters\": {"
            \o PathParameterMember(names[1]) \o "}}"
      [] Len(names) = 2 ->
            "{" \o LambdaBaseMembers \o ", \"pathParameters\": {"
            \o PathParameterMember(names[1]) \o ", "
            \o PathParameterMember(names[2]) \o "}}"

S3Ended == pc \in {"integ_returned", "integ_raised"} /\ integ.fn = "s3_integration"

S3MethodAllowed == integ.args.http_method \in {"GET", "PUT", "DELETE"}

\* the caller gave an object key / path parameters (not None, not empty)
KeyGiven == integ.args.object_key \notin {None, ""}

PathParametersGiven ==
    /\ integ.args.path_parameters.t # "none"
    /\ integ.args.path_parameters.s # "" \/ integ.args.path_parameters.l # <<>>

\* C14: s3_integration called with neither an object key nor path parameters
\* (None or empty for both) fails with ValueError, for every bucket name,
\* credential and allowed HTTP method.
C14_NeitherKeyNorPathFails ==
    (S3Ended /\ S3MethodAllowed /\ ~KeyGiven /\ ~PathParametersGiven) =>
        (pc = "integ_raised" /\ integ.err = "ValueError")

C14_Witness ==
    /\ S3Ended
    /\ integ.args.http_method = "PUT"
    /\ integ.args.object_key = ""
    /\ integ.args.path_parameters = List(<<>>)
    /\ integ.err = "ValueError"

\* the uri of an object of the bucket
S3Uri(bucket, tail) == "arn:aws:apigateway:${region}:s3:path/" \o bucket \o "/" \o tail

\* p1/.../pn for a list of one or two strings
Joined(q) ==
    CASE Len(q) = 1 -> q[1].s
      [] Len(q) = 2 -> q[1].s \o "/" \o q[2].s

\* the default response mapping: 200, and 404 for 4xx, 403 and 404
ExpectedS3Responses ==
    Dict([k \in {"default", "4xx", "403", "404"} |->
            Dict([statusCode |-> Str(IF k = "default" THEN "200" ELSE "404")])])

S3UriAndFields ==
    LET a == integ.args
        v == integ.value.d
    IN  /\ KeyGiven => v["uri"] = Str(S3Uri(a.bucket_name, a.object_key))
        /\ (~KeyGiven /\ PathParametersGiven) =>
              v["uri"] = Str(S3Uri(a.bucket_name, Joined(a.path_parameters.l)))
        /\ v["http_method"] = Str(a.http_method)
        /\ v["integration_type"] = Str("aws")
        /\ v["credentials"] = ToJson(a.iam_arn)

C16_ExactlyOneOfKeyAndPath ==
    Returns("s3_integration") => (KeyGiven /\ ~PathParametersGiven)
                                 \/ (~KeyGiven /\ PathParametersGiven)

(***************************************************************************)
(* Properties of dynamodb_integration.                                     *)
(***************************************************************************)
DynamodbEnded ==
    pc \in {"integ_returned", "integ_raised"} /\ integ.fn = "dynamodb_integration"

\* the text of the application/json request template of the descriptor
DynamodbTemplate == integ.value.d["request_template"].d["application/json"].s

\* the key expression in use: the caller's when supplied, else the default
KeyExpression(pattern, default) == IF pattern \in {None, ""} THEN default ELSE pattern

\* C17: with http_method POST and no mapping_template the descriptor has the
\* PutItem uri and a request template whose Item has a PK and an SK
\* expression: the caller's pk_pattern and sk_pattern when supplied, otherwise
\* the defaults built from owner/project and project/eventname/timestamp.
C17_PutItemKeys ==
    (Returns("dynamodb_integration") /\ integ.args.http_method = "POST") =>
        LET pk == KeyExpression(integ.args.pk_pattern,
                                "$input.path('$.owner')#$input.path('$.project')")
            sk == KeyExpression(integ.args.sk_pattern,
                                "$input.path('$.project')#$input.path('$.eventname')"
                                \o "#$input.path('$.timestamp')")
        IN  /\ integ.value.d["uri"] =
                    Str("arn:aws:apigateway:${region}:dynamodb:action/PutItem")
            /\ Contains(DynamodbTemplate,
                        "\"Item\": {\n    \"PK\": { \"S\": \"" \o pk \o "\" },\n"
                        \o "    \"SK\": { \"S\": \"" \o sk \o "\" },\n")

C17_Witness ==
    /\ Returns("dynamodb_integration")
    /\ integ.args.http_method = "POST"
    /\ integ.args.pk_pattern = None
    /\ integ.args.sk_pattern = "EVENT#$context.requestTimeEpoch"
    /\ Contains(DynamodbTemplate, "\"PK\": { \"S\": \"$input.path('$.owner')#")

\* C18: a descriptor is returned only for http_method POST, or for GET with a
\* query_expr; GET without query_expr and every other HTTP method end with
\* an error and no descriptor.
C18_MethodsSupported ==
    /\ Returns("dynamodb_integration") =>
          \/ integ.args.http_method = "POST"
          \/ integ.args.http_method = "GET" /\ integ.args.query_expr # None
    /\ (/\ DynamodbEnded
        /\ \/ integ.args.http_method = "GET" /\ integ.args.query_expr = None
           \/ integ.args.http_method \notin {"POST", "GET"}) =>
          /\ pc = "integ_raised"
          /\ integ.err \in {"ValueError", "AssertionError"}
          /\ integ.value = PyNone

C18_Witness ==
    /\ DynamodbEnded
    /\ integ.args.http_method = "PUT"
    /\ integ.args.mapping_template = None
    /\ integ.err = "ValueError"

\* one of the four patterns the caller passed mentions the origin parameter
MentionsOrigin ==
    \E name \in {"pk_pattern", "sk_pattern", "field_patterns", "query_expr"} :
        /\ integ.args[name] # None
        /\ Contains(integ.args[name], "$input.params('origin')")

\* C19: if one of pk_pattern, sk_pattern, field_patterns, query_expr contains
\* "$input.params('origin')", request_parameters maps
\* 'integration.request.header.origin' to 'method.request.header.origin'; if
\* none does and the caller passed no request_parameters, it is empty.
C19_OriginForwarded ==
    Returns("dynamodb_integration") =>
        LET rp == integ.value.d["request_parameters"]
        IN  /\ MentionsOrigin =>
                  /\ rp.t = "dict"
                  /\ "integration.request.header.origin" \in DOMAIN rp.d
                  /\ rp.d["integration.request.header.origin"]
                        = Str("method.request.header.origin")
            /\ (~MentionsOrigin /\ integ.args.request_parameters.t = "none") =>
                  rp = EmptyDict

C19_Witness ==
    /\ Returns("dynamodb_integration")
    /\ integ.args.pk_pattern = None
    /\ integ.args.field_patterns # None
    /\ MentionsOrigin
    /\ "integration.request.header.origin"
            \in DOMAIN integ.value.d["request_parameters"].d

\* C20: called with a mapping_template, dynamodb_integration returns a
\* descriptor whose application/json request template is that template.
C20_MappingTemplateUsed ==
    (/\ DynamodbEnded
     /\ integ.args.mapping_template # None
     /\ integ.args.http_method = "POST") =>
        /\ pc = "integ_returned"
        /\ DynamodbTemplate = integ.args.mapping_template

(***************************************************************************)
(* Properties of the Step Function builders.                               *)
(***************************************************************************)
\* the fields of a descriptor other than uri
FieldsButUri(v) == [k \in DOMAIN v.d \ {"uri"} |-> v.d[k]]

\* the input of the state machine as it stands inside the JSON text of the
\* request template
ExpectedSfnInput(mapping_template) ==
    CASE mapping_template = NoTemplate -> "$input.json('$')"
      [] mapping_template = DictTemplate(<<Entry("name", "$input.path('$.name')")>>) ->
            "{\\\"name\\\": \\\"$input.path('$.name')\\\"}"
      [] mapping_template = StrTemplate("$input.body") -> "$input.body"

ExpectedSfnTemplate(sfn_arn, mapping_template) ==
    "{\"input\": \"" \o ExpectedSfnInput(mapping_template)
    \o "\", \"stateMachineArn\": \"" \o sfn_arn
    \o "\", \"region\": \"${region}\"}"

AuthEnded == pc \in {"auth_done", "auth_raised"}

\* the class constructed does not implement _create_model, and the arguments
\* are valid
WithoutCreateModel ==
    \/ auth.kind = "APIKeyAuthorizer"
    \/ /\ auth.kind = "AWSAuthorizer"
       /\ auth.kwargs.authorizer_type \in {"token", "request", "cognito_user_pools"}

\* C22: constructing the base AWSAuthorizer with valid arguments, or an
\* APIKeyAuthorizer, raises NotImplementedError; no such authorizer with a
\* model ever exists.
C22_NotImplemented ==
    /\ (AuthEnded /\ WithoutCreateModel) =>
          /\ pc = "auth_raised"
          /\ auth.err = "NotImplementedError"
          /\ auth.model = PyNone
    /\ pc = "auth_done" => auth.kind \notin {"AWSAuthorizer", "APIKeyAuthorizer"}

C22_Witness ==
    /\ pc = "auth_raised"
    /\ auth.kind = "APIKeyAuthorizer"
    /\ auth.kwargs.header_name = "x-api-key"
    /\ auth.err = "NotImplementedError"

\* C23: every CognitoAuthorizer has scheme name equal to the authorizer name
\* and a descriptor with authtype 'cognito_user_pools', authorizer type
\* 'cognito_user_pools' and providerARNs a list of exactly one element: the
\* supplied user_pool_arn, or '${cognito_user_pool_arn}' when none or an
\* empty one is supplied.
C23_CognitoDescriptor ==
    (AuthEnded /\ auth.kind = "CognitoAuthorizer") =>
        /\ pc = "auth_done"
        /\ auth.self.scheme_name = auth.kwargs.authorizer_name
        /\ auth.model.d["x-amazon-apigateway-authtype"] = Str("cognito_user_pools")
        /\ LET authorizer == auth.model.d["x-amazon-apigateway-authorizer"].d
           IN  /\ authorizer["type"] = Str("cognito_user_pools")
               /\ authorizer["providerARNs"] =
                     List(<<Str(IF auth.kwargs.user_pool_arn \in {None, ""}
                                THEN "${cognito_user_pool_arn}"
                                ELSE auth.kwargs.user_pool_arn)>>)

C23_Witness ==
    /\ pc = "auth_done"
    /\ auth.kind = "CognitoAuthorizer"
    /\ auth.kwargs.user_pool_arn = ""
    /\ Len(auth.model.d["x-amazon-apigateway-authorizer"].d["providerARNs"].l) = 1

(***************************************************************************)
(* Properties of the routes registered through the router.                 *)
(***************************************************************************)
\* the operation the document has for a registered route
OperationOf(rt) == obj.d["paths"].d[rt.path].d[lower(rt.method)]

HasOperation(rt) ==
    /\ rt.path \in DOMAIN obj.d["paths"].d
    /\ lower(rt.method) \in DOMAIN obj.d["paths"].d[rt.path].d

\* C24: for each method m of get, post, put, delete, an endpoint registered
\* through the router's m decorator with aws_lambda_uri U and aws_iam_arn C
\* is documented under its path and m with an integration that has uri U,
\* httpMethod 'POST', type 'aws', credentials C, a 'responses' entry and a
\* request template that is the JSON text of exactly the four fields body,
\* httpMethod, resource and path.
C24_RouterLambdaOperation ==
    pc = "router_done" =>
        \A i \in 1..Len(routes) :
            routes[i].kwargs.aws_lambda_uri # None =>
                /\ HasOperation(routes[i])
                /\ INTEGRATION_KEY \in DOMAIN OperationOf(routes[i]).d
                /\ LET block == OperationOf(routes[i]).d[INTEGRATION_KEY].d
                   IN  /\ block["uri"] = Str(routes[i].kwargs.aws_lambda_uri)
                       /\ block["httpMethod"] = Str("POST")
                       /\ block["type"] = Str("aws")
                       /\ block["credentials"] = Str(routes[i].kwargs.aws_iam_arn)
                       /\ "responses" \in DOMAIN block
                       /\ block["requestTemplates"].d["application/json"]
                            = Str("{" \o LambdaBaseMembers \o "}")

(***************************************************************************)
(* Properties of the synthesized OPTIONS routes.                           *)
(***************************************************************************)
OptionsRoutesOn(path) ==
    {i \in 1..Len(routes) : routes[i].method = "OPTIONS" /\ routes[i].path = path}

CarriesMockIntegration(rt) ==
    /\ INTEGRATION_KEY \in DOMAIN rt.openapi_extra.d
    /\ LET block == rt.openapi_extra.d[INTEGRATION_KEY].d
           params == block["responses"].d["default"].d["responseParameters"].d
       IN  /\ block["type"] = Str("mock")
           /\ params["method.response.header.Access-Control-Allow-Origin"] = Str("'*'")
           /\ params["method.response.header.Access-Control-Allow-Methods"]
                = Str("'OPTIONS,HEAD,GET,POST,PUT,PATCH,DELETE'")
           /\ params["method.response.header.Access-Control-Allow-Headers"]
                = Str("'Content-Type,X-Amz-Date,Authorization,X-Api-Key,X-Amz-Security-Token'")

\* C25: add_options_routes synthesizes exactly one OPTIONS route per distinct
\* existing path, also when several routes share a path, and every
\* synthesized route carries the fixed mock integration returning the
\* allowed origin, methods and headers.
C25_OneOptionsRoutePerPath ==
    (pc = "export_routes" /\ args.cors) =>
        \A i \in 1..Len(routes) :
            IF routes[i].method = "OPTIONS"
            THEN CarriesMockIntegration(routes[i])
            ELSE Cardinality(OptionsRoutesOn(routes[i].path)) = 1

(***************************************************************************)
(* A Lambda route and a DynamoDB route in one document.                    *)
(***************************************************************************)
ThroughRouter(kw) == "methods" \in DOMAIN kw

DynamodbTarget(kw) == ThroughRouter(kw) /\ kw.aws_dynamodb_table_name # None

LambdaTarget(kw) == ThroughRouter(kw) /\ kw.aws_lambda_uri # None

RegisteredLambdaAndDynamodb ==
    /\ Len(routes) = 2
    /\ routes[1].method = "GET" /\ LambdaTarget(routes[1].kwargs)
    /\ routes[2].method = "POST" /\ DynamodbTarget(routes[2].kwargs)

\* C26: registering a GET route with a Lambda target and a POST route with a
\* DynamoDB target succeeds, and the generated document has exactly two path
\* entries, each with a non-empty integration block whose type matches the
\* target: aws_proxy with the caller's uri and credentials for the Lambda
\* route, aws for the DynamoDB route.
C26_LambdaAndDynamodbRoutes ==
    /\ (pc \in {"route_done", "route_raised"} /\ DynamodbTarget(route.kwargs))
            => pc = "route_done"
    /\ (pc = "router_done" /\ RegisteredLambdaAndDynamodb) =>
            /\ Cardinality(DOMAIN obj.d["paths"].d) = 2
            /\ \A i \in 1..2 :
                    /\ HasOperation(routes[i])
                    /\ INTEGRATION_KEY \in DOMAIN OperationOf(routes[i]).d
                    /\ OperationOf(routes[i]).d[INTEGRATION_KEY].d # EmptyDict.d
            /\ LET block == OperationOf(routes[1]).d[INTEGRATION_KEY].d
               IN  /\ block["type"] = Str("aws_proxy")
                   /\ block["uri"] = Str(routes[1].kwargs.aws_lambda_uri)
                   /\ block["credentials"] = Str(routes[1].kwargs.aws_iam_arn)
            /\ OperationOf(routes[2]).d[INTEGRATION_KEY].d["type"] = Str("aws")

(***************************************************************************)
(* Purity of the integration builders.                                     *)
(***************************************************************************)
BuilderEnded == pc \in {"integ_returned", "integ_raised"}

\* C27: every integration builder leaves every argument the caller passed
\* unchanged, a request_parameters dict passed to dynamodb_integration, a
\* responses_template passed to lambda_integration and a path_parameters
\* list passed to s3_integration included.
C27_ArgumentsUnchanged ==
    BuilderEnded => integ.after = integ.args

(***************************************************************************)
(* The export step without --cors.                                         *)
(***************************************************************************)
ExportPast(stages) == pc \in stages

OptionsOperations(doc) ==
    IF "paths" \notin DOMAIN doc.d THEN {}
    ELSE {path \in DOMAIN doc.d["paths"].d :
            "options" \in DOMAIN doc.d["paths"].d[path].d}

InjectedCorsHeaders(doc) ==
    {x \in ResponsesOf(doc) :
        DOMAIN HeadersOf(ResponseAt(doc, x)) \cap CorsHeaderNames # {}}

\* C28: a run of the export step without --cors produces documents with no
\* synthesized OPTIONS operations and no injected Access-Control-* response
\* headers.
C28_CorsOnlyWithFlag ==
    (ExportPast({"export_cors", "export_private", "export_done"})
        /\ ~args.cors_flag) =>
            /\ \A i \in 1..Len(routes) : routes[i].method # "OPTIONS"
            /\ OptionsOperations(obj) = {}
            /\ InjectedCorsHeaders(obj) = {}

(***************************************************************************)
(* The scrub works on the caller's document.                               *)
(***************************************************************************)
\* the document a variable of the export step refers to
Referent(name) == IF refs[name] = "obj" THEN obj ELSE NoDoc

\* C29: make_public_api_schema scrubs the document it is given in place and
\* returns that same object: after the call the 'private' variable of the
\* export step refers to the object 'public' refers to, sees a document with
\* no x-amazon-apigateway-* keys, and serializes to the public file's text.
C29_ScrubbedInPlace ==
    pc = "export_done" =>
        /\ refs.public = refs.private
        /\ refs.private = refs.openapi_schema
        /\ VendorKeyPaths(Referent("private")) = {}
        /\ json_dump(Referent("private")) = files.out_public

\* a run that wrote a private file with vendor keys and then scrubbed
C29_Witness ==
    /\ pc = "export_done"
    /\ VendorKeyPaths(files.out_private.json) # {}
    /\ VendorKeyPaths(Referent("private")) = {}
    /\ files.out_private # files.out_public

(***************************************************************************)
(* The priority of the integration sources of a route.                     *)
(***************************************************************************)
\* C30: given several integration sources, AWSAPIRoute builds from exactly
\* one, by a fixed priority: an openapi_extra containing the integration key,
\* then aws_lambda_uri, then aws_sfn_sync_arn, then aws_sfn_arn.  A given
\* openapi_extra without the integration key and with no other source fails
\* with ValueError after the parent constructor has run.  Every successful
\* construction leaves an integration block in the route's openapi_extra.
C30_SourcePriority ==
    /\ pc = "route_done" =>
          LET kw == route.kwargs
              extra == route.self.openapi_extra.d
          IN  /\ INTEGRATION_KEY \in DOMAIN extra
              /\ IF "openapi_extra" \in SuppliedSources(kw)
                 THEN extra[INTEGRATION_KEY] = kw.openapi_extra.d[INTEGRATION_KEY]
                 ELSE IF "aws_lambda_uri" \in SuppliedSources(kw)
                 THEN extra[INTEGRATION_KEY].d["uri"] = Str(kw.aws_lambda_uri)
                 ELSE IF "aws_sfn_sync_arn" \in SuppliedSources(kw)
                 THEN extra[INTEGRATION_KEY].d["uri"]
                        = Str("arn:aws:apigateway:${region}:states:action/StartSyncExecution")
                 ELSE /\ "aws_sfn_arn" \in SuppliedSources(kw)
                      /\ extra[INTEGRATION_KEY].d["uri"]
                            = Str("arn:aws:apigateway:${region}:states:action/StartExecution")
    /\ (RouteEnded /\ TruthyValue(route.kwargs.openapi_extra)
            /\ SuppliedSources(route.kwargs) = {}) =>
          /\ pc = "route_raised"
          /\ route.err = "ValueError"
          /\ route.super_done

\* a route given a Lambda target and both Step Function targets, built from
\* the Lambda target
C30_Witness ==
    /\ pc = "route_done"
    /\ SuppliedSources(route.kwargs)
            = {"aws_lambda_uri", "aws_sfn_sync_arn", "aws_sfn_arn"}
    /\ route.self.openapi_extra.d[INTEGRATION_KEY].d["uri"] = Str(route.kwargs.aws_lambda_uri)

\* a route given only metadata in openapi_extra, refused after the parent
\* constructor ran
C30_RefusedAfterSuper ==
    /\ pc = "route_raised"
    /\ TruthyValue(route.kwargs.openapi_extra)
    /\ SuppliedSources(route.kwargs) = {}
    /\ route.super_done

====
